---- MODULE Spec2Model ----
(***************************************************************************)
(* Message-processing core of the chat bridge (src/src/index.ts): the      *)
(* router poll loop, processGroupMessages, startup recovery and the        *)
(* singleton lock, together with the Group Queue, Message Store and Agent  *)
(* Runner they call.                                                       *)
(***************************************************************************)
EXTENDS Integers, Sequences, FiniteSets, TLC

\* ------------------------------------------------------------------ bounds

\* Registered chat JIDs (registeredGroups keys).
JIDS == {"tg:100", "tg:200"}

\* Environment events of a run of the model: rows stored in the Message
\* Store, process crashes and scheduler tasks that come due, all together.
MaxEvents == 2

\* Row numbers of the Message Store.
MsgIds == 1..MaxEvents

\* ------------------------------------------------------------------- state

VARIABLES
    messages,            \* Message Store rows, in insertion order
    db,                  \* router_state KV: last_timestamp, last_agent_timestamp
    up,                  \* the process is running (main() reached the loop)
    lastTimestamp,       \* index.ts:56
    lastAgentTimestamp,  \* index.ts:59
    pollMsgs,            \* rows of the current poll not yet dispatched
    queued,              \* GroupQueue: per JID, FIFO of work items
    qActive,             \* GroupQueue: per JID, kind of the running item
    qProcess,            \* GroupQueue: per JID, a process handle is registered
    runPc,               \* per JID, where the running item is
    previousCursor,      \* processGroupMessages local, index.ts:170
    hadError,            \* processGroupMessages local, index.ts:195
    outputSentToUser,    \* processGroupMessages local, index.ts:196
    hadStreamingOutput,  \* Agent Runner: a record with a payload was streamed
    prompt,              \* per JID, rows of the prompt of the running item
    runInput,            \* per JID, per row: inputs of this run that hold it
    output,              \* per JID, terminal status the Agent Runner returned
    liveRunners,         \* per JID, number of live agent processes
    delivered,           \* per row: inputs holding it, of runs not rolled back
    pgmReturn,           \* per JID, what the work function returned to the queue
    crashes,             \* crashes so far
    tasks,               \* scheduler tasks fired so far
    idleTimer,           \* per JID, processGroupMessages local, index.ts:181
    stdinClosed,         \* per JID, queue.closeStdin was called for the runner
    lockFile,            \* store/nanoclaw.lock: absent, or its content
    lockPc,              \* per starting process, its place in acquireSingletonLock
    attempt,             \* per starting process, the loop counter (index.ts:449)
    existingPid,         \* per starting process, the PID it read (index.ts:461)
    registeredGroups,    \* index.ts:58, per JID the registered group
    dbGroups,            \* registered_groups table (setRegisteredGroup)
    groupDirs,           \* group folders that exist on disk
    regLog,              \* outcome of the last registerGroup call
    game,                \* game-engine.mjs: the state file of the game
    cmdOut,              \* game-engine.mjs: the last command and what it printed
    cmds,                \* commands.ts: the reset handler and the last call
    botPool,             \* telegram.ts: the bot pool and the calls in flight
    dotenv               \* env.ts: the .env file and the last call

coreVars == <<messages, db, up, lastTimestamp, lastAgentTimestamp, pollMsgs,
          queued, qActive, qProcess, runPc, previousCursor, hadError,
          outputSentToUser, hadStreamingOutput, prompt, runInput, output,
          liveRunners, delivered, pgmReturn, crashes, tasks,
          idleTimer, stdinClosed>>

\* The idle timer of processGroupMessages and what it acts on.
idleVars == <<idleTimer, stdinClosed>>

lockVars == <<lockFile, lockPc, attempt, existingPid>>

regVars == <<registeredGroups, dbGroups, groupDirs, regLog>>

gameVars == <<game, cmdOut>>

\* The parts outside index.ts and the game engine.
sideVars == <<cmds, botPool, dotenv>>

vars == <<coreVars, lockVars, regVars, gameVars, sideVars>>

\* What the actions of one part leave alone.
nonCoreVars == <<lockVars, regVars, gameVars, sideVars>>
nonLockVars == <<coreVars, regVars, gameVars, sideVars>>
nonRegVars == <<coreVars, lockVars, gameVars, sideVars>>
nonGameVars == <<coreVars, lockVars, regVars, sideVars>>
nonSideVars == <<coreVars, lockVars, regVars, gameVars>>

\* ------------------------------------------------------------ small helpers

Min2(a, b) == IF a < b THEN a ELSE b

MaxOf(S) == CHOOSE x \in S : \A y \in S : y <= x

Stored == 1..Len(messages)

Ts(i) == messages[i].timestamp

\* Timestamp of the last element of a batch (batches are timestamp-ordered).
LastTs(batch) == MaxOf({Ts(i) : i \in batch})

NoInput == [i \in MsgIds |-> 0]

\* One more input holding every row of batch.
AddInput(f, batch) == [i \in MsgIds |-> IF i \in batch THEN Min2(2, f[i] + 1) ELSE f[i]]

\* The inputs of a finished run are added to the delivered counts.
Commit(d, f) == [i \in MsgIds |-> Min2(2, d[i] + f[i])]

\* ------------------------------------------------------------ Message Store

\* db.ts getMessagesSince: rows of the chat after the cursor, bot rows excluded.
getMessagesSince(jid, since) ==
    {i \in Stored : /\ messages[i].chat_jid = jid
                    /\ messages[i].timestamp > since
                    /\ ~messages[i].is_bot_message}

\* db.ts getNewMessages: rows of registered chats after last_timestamp.
getNewMessages(jids, since) ==
    {i \in Stored : /\ messages[i].chat_jid \in jids
                    /\ messages[i].timestamp > since
                    /\ ~messages[i].is_bot_message}

\* Timestamp a new row gets: the clock never runs backwards, and two rows
\* may fall in the same tick (telegram.ts uses the message date in seconds).
NewTimestamps ==
    IF Len(messages) = 0 THEN {1}
    ELSE {Ts(Len(messages)), Ts(Len(messages)) + 1}

\* Timestamp of a reply the channel stores: the wall clock at the send
\* (telegram.ts sendMessage, new Date()), which lies after the whole-second
\* dates of the rows stored so far.
BotTimestamp == IF Len(messages) = 0 THEN 1 ELSE Ts(Len(messages)) + 1

\* index.ts:84 saveState
saveState(lt, lat) == db' = [last_timestamp |-> lt, last_agent_timestamp |-> lat]

\* ----------------------------------------------------------------- Init

\* One more environment event fits the bound.
EventFits == Len(messages) + crashes + tasks < MaxEvents

InitCore ==
    /\ messages = <<>>
    /\ db = [last_timestamp |-> 0, last_agent_timestamp |-> [j \in JIDS |-> 0]]
    /\ up = TRUE
    /\ lastTimestamp = 0
    /\ lastAgentTimestamp = [j \in JIDS |-> 0]
    /\ pollMsgs = {}
    /\ queued = [j \in JIDS |-> <<>>]
    /\ qActive = [j \in JIDS |-> "none"]
    /\ qProcess = [j \in JIDS |-> FALSE]
    /\ runPc = [j \in JIDS |-> "idle"]
    /\ previousCursor = [j \in JIDS |-> 0]
    /\ hadError = [j \in JIDS |-> FALSE]
    /\ outputSentToUser = [j \in JIDS |-> FALSE]
    /\ hadStreamingOutput = [j \in JIDS |-> FALSE]
    /\ prompt = [j \in JIDS |-> {}]
    /\ runInput = [j \in JIDS |-> NoInput]
    /\ output = [j \in JIDS |-> "none"]
    /\ liveRunners = [j \in JIDS |-> 0]
    /\ idleTimer = [j \in JIDS |-> "off"]
    /\ stdinClosed = [j \in JIDS |-> FALSE]
    /\ delivered = NoInput
    /\ pgmReturn = [j \in JIDS |-> "none"]
    /\ crashes = 0
    /\ tasks = 0

\* ------------------------------------------------------------- Group Queue

\* Synchronous code of the process runs to completion: nothing of the
\* process interleaves with a router poll that is under way, nor with the
\* queue's continuation of a work function that has just returned.
InProcess == up /\ pollMsgs = {} /\ \A j \in JIDS : runPc[j] # "returned"

\* GroupQueue.sendMessage: accepted iff a live agent handle is registered.
sendMessage(jid) == qProcess[jid]

\* GroupQueue.enqueueMessageCheck: append a "check" marker.
enqueueMessageCheck(jid) == queued' = [queued EXCEPT ![jid] = Append(@, "check")]

\* GroupQueue.registerProcess (index.ts:307, index.ts:577)
registerProcess(jid) == qProcess' = [qProcess EXCEPT ![jid] = TRUE]

\* The queue slot of jid is released when its work function has returned;
\* the locals of the finished call are gone.
ReleaseSlot(jid) ==
    /\ qActive' = [qActive EXCEPT ![jid] = "none"]
    /\ qProcess' = [qProcess EXCEPT ![jid] = FALSE]
    /\ runPc' = [runPc EXCEPT ![jid] = "idle"]
    /\ prompt' = [prompt EXCEPT ![jid] = {}]
    /\ runInput' = [runInput EXCEPT ![jid] = NoInput]
    /\ previousCursor' = [previousCursor EXCEPT ![jid] = 0]
    /\ hadError' = [hadError EXCEPT ![jid] = FALSE]
    /\ outputSentToUser' = [outputSentToUser EXCEPT ![jid] = FALSE]
    /\ hadStreamingOutput' = [hadStreamingOutput EXCEPT ![jid] = FALSE]
    /\ output' = [output EXCEPT ![jid] = "none"]
    /\ pgmReturn' = [pgmReturn EXCEPT ![jid] = "none"]
    /\ idleTimer' = [idleTimer EXCEPT ![jid] = "off"]
    /\ stdinClosed' = [stdinClosed EXCEPT ![jid] = FALSE]

\* The work function of jid returned: the queue frees the slot and goes on
\* with the next queued item.
QueueRelease(jid) ==
    /\ up
    /\ runPc[jid] = "returned"
    /\ ReleaseSlot(jid)
    /\ UNCHANGED <<nonCoreVars, messages, db, up, lastTimestamp, lastAgentTimestamp, pollMsgs,
                   queued, liveRunners, delivered, crashes, tasks>>

\* ------------------------------------------------------------ channel input

\* Channel adapter onMessage -> storeMessage (index.ts:540).
StoreMessage(jid, ts) ==
    /\ up => InProcess
    /\ EventFits
    /\ messages' = Append(messages,
           [chat_jid |-> jid, timestamp |-> ts, is_from_me |-> FALSE,
            is_bot_message |-> FALSE])
    /\ UNCHANGED <<nonCoreVars, idleVars, db, up, lastTimestamp, lastAgentTimestamp, pollMsgs, queued,
                   qActive, qProcess, runPc, previousCursor, hadError,
                   outputSentToUser, hadStreamingOutput, prompt, runInput, output,
                   liveRunners, delivered, pgmReturn, crashes, tasks>>

\* ------------------------------------------------------ Router / message loop

\* index.ts:391 messagesToSend
messagesToSend(allPending, groupMessages) ==
    IF allPending # {} THEN allPending ELSE groupMessages

\* index.ts:343-355: a poll observes the rows after the observation cursor
\* since and, when there are some, advances and persists the cursor at once.
Observe(since, lat) ==
    LET new == getNewMessages(JIDS, since) IN
      /\ pollMsgs' = new
      /\ IF new # {}
         THEN /\ lastTimestamp' = LastTs(new)
              /\ saveState(lastTimestamp', lat)
         ELSE /\ lastTimestamp' = since
              /\ UNCHANGED db

\* One iteration of the message loop finds new rows.
PollObserve ==
    /\ InProcess
    /\ getNewMessages(JIDS, lastTimestamp) # {}
    /\ Observe(lastTimestamp, lastAgentTimestamp)
    /\ UNCHANGED <<nonCoreVars, idleVars, messages, up, lastAgentTimestamp, queued, qActive, qProcess,
                   runPc, previousCursor, hadError, outputSentToUser,
                   hadStreamingOutput, prompt, runInput, output, liveRunners,
                   delivered, pgmReturn, crashes, tasks>>

\* The group the loop at index.ts:368 handles next (Map insertion order).
NextGroup == messages[CHOOSE i \in pollMsgs : \A k \in pollMsgs : i <= k].chat_jid

\* Mutant: the cursor advanced by piping is not persisted.
RouterPipeNotPersisted(jid, batch) ==
    /\ runInput' = [runInput EXCEPT ![jid] = AddInput(@, batch)]
    /\ lastAgentTimestamp' = [lastAgentTimestamp EXCEPT ![jid] = LastTs(batch)]
    /\ UNCHANGED <<db, queued, liveRunners>>

\* index.ts:395-402: the batch is accepted by the live agent.
RouterPipe(jid, batch) ==
    /\ runInput' = [runInput EXCEPT ![jid] = AddInput(@, batch)]
    /\ lastAgentTimestamp' = [lastAgentTimestamp EXCEPT ![jid] = LastTs(batch)]
    /\ saveState(lastTimestamp, lastAgentTimestamp')
    /\ UNCHANGED <<queued, liveRunners>>

\* Mutant: the router starts a container itself instead of enqueueing.
RouterSpawnsDirectly(jid) ==
    /\ liveRunners' = [liveRunners EXCEPT ![jid] = @ + 1]
    /\ UNCHANGED <<queued, runInput, lastAgentTimestamp, db>>

\* index.ts:409-412: no live agent, a check is enqueued.
RouterEnqueue(jid) ==
    /\ enqueueMessageCheck(jid)
    /\ UNCHANGED <<runInput, lastAgentTimestamp, db, liveRunners>>

\* index.ts:368-413: one iteration of the per-group loop of a poll.
RouterDispatch ==
    /\ up
    /\ pollMsgs # {}
    /\ LET jid == NextGroup
           groupMessages == {i \in pollMsgs : messages[i].chat_jid = jid}
           allPending == getMessagesSince(jid, lastAgentTimestamp[jid])
           batch == messagesToSend(allPending, groupMessages)
       IN  /\ IF sendMessage(jid) THEN RouterPipe(jid, batch) ELSE RouterEnqueue(jid)
           /\ pollMsgs' = pollMsgs \ groupMessages
    /\ UNCHANGED <<nonCoreVars, idleVars, messages, up, lastTimestamp, qActive, qProcess, runPc,
                   previousCursor, hadError, outputSentToUser,
                   hadStreamingOutput, prompt, output, delivered, pgmReturn,
                   crashes, tasks>>

\* index.ts:368-417: handling a group throws (a Store query or a queue call
\* fails) before anything was done for it; the catch around the whole
\* iteration logs the error, the rest of the poll's groups are not handled
\* and the loop goes on with the next poll.
RouterThrows ==
    /\ up
    /\ pollMsgs # {}
    /\ pollMsgs' = {}
    /\ UNCHANGED <<nonCoreVars, idleVars, messages, db, up, lastTimestamp, lastAgentTimestamp, queued,
                   qActive, qProcess, runPc, previousCursor, hadError,
                   outputSentToUser, hadStreamingOutput, prompt, runInput, output,
                   liveRunners, delivered, pgmReturn, crashes, tasks>>

\* ------------------------------------------------------ processGroupMessages

\* Mutant: the claim is made in memory only.
ClaimCursorNotPersisted(jid, pending) ==
    /\ previousCursor' = [previousCursor EXCEPT ![jid] = lastAgentTimestamp[jid]]
    /\ lastAgentTimestamp' = [lastAgentTimestamp EXCEPT ![jid] = LastTs(pending)]
    /\ UNCHANGED db

\* index.ts:170-173: remember the old cursor, claim the batch, persist.
ClaimCursor(jid, pending) ==
    /\ previousCursor' = [previousCursor EXCEPT ![jid] = lastAgentTimestamp[jid]]
    /\ lastAgentTimestamp' = [lastAgentTimestamp EXCEPT ![jid] = LastTs(pending)]
    /\ saveState(lastTimestamp, lastAgentTimestamp')

\* The queue hands the "check" marker at the head of jid's queue to
\* processGroupMessages when no item of jid is running.
CheckIsNext(jid) ==
    /\ InProcess
    /\ qActive[jid] = "none"
    /\ queued[jid] # <<>>
    /\ Head(queued[jid]) = "check"

\* Mutant: the cursor is written before the empty batch is noticed.
PGM_NoPendingResetsCursor(jid) ==
    /\ CheckIsNext(jid)
    /\ getMessagesSince(jid, lastAgentTimestamp[jid]) = {}
    /\ queued' = [queued EXCEPT ![jid] = Tail(@)]
    /\ qActive' = [qActive EXCEPT ![jid] = "messages"]
    /\ runPc' = [runPc EXCEPT ![jid] = "returned"]
    /\ pgmReturn' = [pgmReturn EXCEPT ![jid] = "true"]
    /\ lastAgentTimestamp' = [lastAgentTimestamp EXCEPT ![jid] = 0]
    /\ saveState(lastTimestamp, lastAgentTimestamp')
    /\ UNCHANGED <<nonCoreVars, idleVars, messages, up, lastTimestamp, pollMsgs,
                   qProcess, previousCursor, hadError, outputSentToUser,
                   hadStreamingOutput, prompt, runInput, output, liveRunners,
                   delivered, crashes, tasks>>

\* index.ts:154-161: nothing pending, return true.
PGM_NoPending(jid) ==
    /\ CheckIsNext(jid)
    /\ getMessagesSince(jid, lastAgentTimestamp[jid]) = {}
    /\ queued' = [queued EXCEPT ![jid] = Tail(@)]
    /\ qActive' = [qActive EXCEPT ![jid] = "messages"]
    /\ runPc' = [runPc EXCEPT ![jid] = "returned"]
    /\ pgmReturn' = [pgmReturn EXCEPT ![jid] = "true"]
    /\ UNCHANGED <<nonCoreVars, idleVars, messages, db, up, lastTimestamp, lastAgentTimestamp, pollMsgs,
                   qProcess, previousCursor, hadError, outputSentToUser,
                   hadStreamingOutput, prompt, runInput, output, liveRunners,
                   delivered, crashes, tasks>>

\* index.ts:154-196: the pending batch becomes the prompt, the cursor is
\* claimed, and the function suspends before the agent is started.
PGM_Claim(jid) ==
    /\ CheckIsNext(jid)
    /\ LET missedMessages == getMessagesSince(jid, lastAgentTimestamp[jid]) IN
        /\ missedMessages # {}
        /\ prompt' = [prompt EXCEPT ![jid] = missedMessages]
        /\ ClaimCursor(jid, missedMessages)
    /\ queued' = [queued EXCEPT ![jid] = Tail(@)]
    /\ qActive' = [qActive EXCEPT ![jid] = "messages"]
    /\ runPc' = [runPc EXCEPT ![jid] = "starting"]
    /\ UNCHANGED <<nonCoreVars, idleVars, messages, up, lastTimestamp, pollMsgs, qProcess, hadError,
                   outputSentToUser, hadStreamingOutput, runInput, output,
                   liveRunners, delivered, pgmReturn, crashes, tasks>>

\* index.ts:296-310: runContainerAgent starts the container with the prompt
\* and hands the process to the queue.
AgentSpawn(jid) ==
    /\ InProcess
    /\ runPc[jid] = "starting"
    /\ runPc' = [runPc EXCEPT ![jid] = "running"]
    /\ registerProcess(jid)
    /\ liveRunners' = [liveRunners EXCEPT ![jid] = @ + 1]
    /\ runInput' = [runInput EXCEPT ![jid] = AddInput(NoInput, prompt[jid])]
    /\ UNCHANGED <<nonCoreVars, idleVars, messages, db, up, lastTimestamp, lastAgentTimestamp, pollMsgs,
                   queued, qActive, previousCursor, hadError, outputSentToUser,
                   hadStreamingOutput, prompt, output, delivered, pgmReturn,
                   crashes, tasks>>

\* index.ts:326-329: runContainerAgent throws, before a container exists
\* or while it runs; runAgent returns 'error'.
RunAgentThrows(jid) ==
    /\ InProcess
    /\ runPc[jid] \in {"starting", "running"}
    /\ runPc' = [runPc EXCEPT ![jid] = "exited"]
    /\ output' = [output EXCEPT ![jid] = "error"]
    /\ liveRunners' = [liveRunners EXCEPT ![jid] = IF runPc[jid] = "running" THEN @ - 1 ELSE @]
    /\ UNCHANGED <<nonCoreVars, idleVars, messages, db, up, lastTimestamp, lastAgentTimestamp, pollMsgs,
                   queued, qActive, qProcess, previousCursor, hadError,
                   outputSentToUser, hadStreamingOutput, prompt, runInput,
                   delivered, pgmReturn, crashes, tasks>>

Statuses == {"success", "error", "progress"}

\* result of a record: null, text, or only <internal> blocks
Payloads == {"null", "text", "internal"}

\* Mutant: the reply is stored without the bot flag.
ChannelSendUnflagged(jid, stored) ==
    IF stored
    THEN /\ EventFits
         /\ messages' = Append(messages,
               [chat_jid |-> jid, timestamp |-> BotTimestamp,
                is_from_me |-> TRUE, is_bot_message |-> FALSE])
    ELSE UNCHANGED messages

\* channel.sendMessage (telegram.ts sendMessage, index.ts:548-549): the
\* adapter may store the reply, as a row flagged is_from_me and
\* is_bot_message.
ChannelSend(jid, stored) ==
    IF stored
    THEN /\ EventFits
         /\ messages' = Append(messages,
               [chat_jid |-> jid, timestamp |-> BotTimestamp,
                is_from_me |-> TRUE, is_bot_message |-> TRUE])
    ELSE UNCHANGED messages

\* Mutant: the result is sent as it is, <internal> blocks included.
SendsTextUnstripped(payload) == payload # "null"

\* index.ts:206-211: a send happens iff text is left after stripping.
SendsText(payload) == payload = "text"

\* index.ts:183-192 resetIdleTimer: a pending timeout is cleared and a new
\* one of IDLE_TIMEOUT is set.
resetIdleTimer(jid) == idleTimer' = [idleTimer EXCEPT ![jid] = "armed"]

\* Mutant: the timer is reset only when text was sent.
RearmsTimerOnTextOnly(payload) == payload = "text"

\* index.ts:200, 213-214: the timer is reset for a record with a result
\* ("null" stands for every falsy result), not for session-update markers.
RearmsTimer(payload) == payload # "null"

\* GroupQueue.closeStdin: the stdin of the runner of jid is closed.
closeStdin(jid) == stdinClosed' = [stdinClosed EXCEPT ![jid] = TRUE]

\* index.ts:185-191: the timeout set by resetIdleTimer expires, while the
\* agent runs or, after it, while the function waits at index.ts:225.
IdleExpire(jid) ==
    /\ InProcess
    /\ qActive[jid] = "messages"
    /\ runPc[jid] \in {"running", "exited"}
    /\ idleTimer[jid] = "armed"
    /\ idleTimer' = [idleTimer EXCEPT ![jid] = "off"]
    /\ closeStdin(jid)
    /\ UNCHANGED <<nonCoreVars, messages, db, up, lastTimestamp, lastAgentTimestamp, pollMsgs,
                   queued, qActive, qProcess, runPc, previousCursor, hadError,
                   outputSentToUser, hadStreamingOutput, prompt, runInput, output,
                   liveRunners, delivered, pgmReturn, crashes, tasks>>

\* index.ts:198-223: the streaming callback of processGroupMessages.
StreamRecord(jid, status, payload, stored) ==
    /\ InProcess
    /\ qActive[jid] = "messages"
    /\ runPc[jid] = "running"
    /\ IF SendsText(payload)
       THEN /\ ChannelSend(jid, stored)
            /\ outputSentToUser' = [outputSentToUser EXCEPT ![jid] = TRUE]
       ELSE /\ ~stored
            /\ UNCHANGED <<messages, outputSentToUser>>
    /\ IF RearmsTimer(payload) THEN resetIdleTimer(jid) ELSE UNCHANGED idleTimer
    /\ hadError' = [hadError EXCEPT ![jid] = @ \/ status = "error"]
    /\ hadStreamingOutput' = [hadStreamingOutput EXCEPT ![jid] = @ \/ payload # "null"]
    /\ UNCHANGED <<nonCoreVars, stdinClosed, db, up, lastTimestamp, lastAgentTimestamp, pollMsgs, queued,
                   qActive, qProcess, runPc, previousCursor, prompt, runInput,
                   output, liveRunners, delivered, pgmReturn, crashes, tasks>>

\* Agent Runner termination: exit code 0 is success; a non-zero exit is
\* success when output was streamed, error otherwise.
TerminalStatus(code, streamed) ==
    IF code = 0 \/ streamed THEN "success" ELSE "error"

\* The container exits and runContainerAgent resolves (index.ts:297-325).
AgentExit(jid, code) ==
    /\ InProcess
    /\ runPc[jid] = "running"
    /\ runPc' = [runPc EXCEPT ![jid] = "exited"]
    /\ output' = [output EXCEPT ![jid] = TerminalStatus(code, hadStreamingOutput[jid])]
    /\ liveRunners' = [liveRunners EXCEPT ![jid] = @ - 1]
    /\ UNCHANGED <<nonCoreVars, idleVars, messages, db, up, lastTimestamp, lastAgentTimestamp, pollMsgs,
                   queued, qActive, qProcess, previousCursor, hadError,
                   outputSentToUser, hadStreamingOutput, prompt, runInput,
                   delivered, pgmReturn, crashes, tasks>>

\* Mutant: the rollback does not look at outputSentToUser.
ShouldRollbackIgnoringOutput(out, err, sent) == out = "error" \/ err

\* index.ts:228-231: the run ends in the rollback branch.
ShouldRollback(out, err, sent) == (out = "error" \/ err) /\ ~sent

\* Mutant: the restored cursor is not persisted.
RollbackNotPersisted(jid) ==
    /\ lastAgentTimestamp' = [lastAgentTimestamp EXCEPT ![jid] = previousCursor[jid]]
    /\ UNCHANGED db

\* index.ts:239-240: restore the cursor and persist.
Rollback(jid) ==
    /\ lastAgentTimestamp' = [lastAgentTimestamp EXCEPT ![jid] = previousCursor[jid]]
    /\ saveState(lastTimestamp, lastAgentTimestamp')

\* index.ts:225-248: the tail of processGroupMessages after runAgent
\* returned; the idle timer is cleared (index.ts:226).
PGM_Finish(jid) ==
    /\ InProcess
    /\ qActive[jid] = "messages"
    /\ runPc[jid] = "exited"
    /\ IF ShouldRollback(output[jid], hadError[jid], outputSentToUser[jid])
       THEN /\ Rollback(jid)
            /\ pgmReturn' = [pgmReturn EXCEPT ![jid] = "false"]
            /\ UNCHANGED delivered
       ELSE /\ pgmReturn' = [pgmReturn EXCEPT ![jid] = "true"]
            /\ delivered' = Commit(delivered, runInput[jid])
            /\ UNCHANGED <<lastAgentTimestamp, db>>
    /\ runPc' = [runPc EXCEPT ![jid] = "returned"]
    /\ idleTimer' = [idleTimer EXCEPT ![jid] = "off"]
    /\ UNCHANGED <<nonCoreVars, stdinClosed, messages, up, lastTimestamp, pollMsgs, queued, qActive,
                   qProcess, previousCursor, hadError, outputSentToUser,
                   hadStreamingOutput, prompt, runInput, output, liveRunners,
                   crashes, tasks>>

\* ----------------------------------------------------------- Task Scheduler

\* startSchedulerLoop (index.ts:573): a due task is enqueued for its group.
TaskDue(jid) ==
    /\ InProcess
    /\ EventFits
    /\ tasks' = tasks + 1
    /\ queued' = [queued EXCEPT ![jid] = Append(@, "task")]
    /\ UNCHANGED <<nonCoreVars, idleVars, messages, db, up, lastTimestamp, lastAgentTimestamp, pollMsgs,
                   qActive, qProcess, runPc, previousCursor, hadError,
                   outputSentToUser, hadStreamingOutput, prompt, runInput,
                   output, liveRunners, delivered, pgmReturn, crashes>>

\* The queue starts the synthetic prompt at the head of jid's queue.
TaskStart(jid) ==
    /\ InProcess
    /\ qActive[jid] = "none"
    /\ queued[jid] # <<>>
    /\ Head(queued[jid]) = "task"
    /\ queued' = [queued EXCEPT ![jid] = Tail(@)]
    /\ qActive' = [qActive EXCEPT ![jid] = "task"]
    /\ runPc' = [runPc EXCEPT ![jid] = "starting"]
    /\ UNCHANGED <<nonCoreVars, idleVars, messages, db, up, lastTimestamp, lastAgentTimestamp, pollMsgs,
                   qProcess, previousCursor, hadError, outputSentToUser,
                   hadStreamingOutput, prompt, runInput, output, liveRunners,
                   delivered, pgmReturn, crashes, tasks>>

\* A record streamed by a task run; its text goes to the channel
\* (index.ts:579-587).
TaskStreamRecord(jid, payload, stored) ==
    /\ InProcess
    /\ qActive[jid] = "task"
    /\ runPc[jid] = "running"
    /\ IF SendsText(payload)
       THEN ChannelSend(jid, stored)
       ELSE ~stored /\ UNCHANGED messages
    /\ hadStreamingOutput' = [hadStreamingOutput EXCEPT ![jid] = @ \/ payload # "null"]
    /\ UNCHANGED <<nonCoreVars, idleVars, db, up, lastTimestamp, lastAgentTimestamp, pollMsgs, queued,
                   qActive, qProcess, runPc, previousCursor, hadError,
                   outputSentToUser, prompt, runInput, output, liveRunners,
                   delivered, pgmReturn, crashes, tasks>>

\* The task's work function returns to the queue.
TaskFinish(jid) ==
    /\ InProcess
    /\ qActive[jid] = "task"
    /\ runPc[jid] = "exited"
    /\ runPc' = [runPc EXCEPT ![jid] = "returned"]
    /\ delivered' = Commit(delivered, runInput[jid])
    /\ UNCHANGED <<nonCoreVars, idleVars, messages, db, up, lastTimestamp, lastAgentTimestamp, pollMsgs,
                   queued, qActive, qProcess, previousCursor, hadError,
                   outputSentToUser, hadStreamingOutput, prompt, runInput,
                   output, liveRunners, pgmReturn, crashes, tasks>>

\* ---------------------------------------------------------- crash, restart

\* Inputs of the runs a crash cuts short were handed to their agents; runs
\* that had already returned are counted by their own last step.
CommitAll(d) ==
    [i \in MsgIds |->
        IF i \in Stored /\ runPc[messages[i].chat_jid] # "returned"
        THEN Min2(2, d[i] + runInput[messages[i].chat_jid][i])
        ELSE d[i]]

\* The process dies at any point; memory is lost and the containers it
\* leaves are removed before the next start does anything else
\* (index.ts:440-443, 522); the Message Store and the router_state rows stay.
Crash ==
    /\ up
    /\ EventFits
    /\ crashes' = crashes + 1
    /\ up' = FALSE
    /\ pollMsgs' = {}
    /\ queued' = [j \in JIDS |-> <<>>]
    /\ qActive' = [j \in JIDS |-> "none"]
    /\ qProcess' = [j \in JIDS |-> FALSE]
    /\ runPc' = [j \in JIDS |-> "idle"]
    /\ prompt' = [j \in JIDS |-> {}]
    /\ runInput' = [j \in JIDS |-> NoInput]
    /\ previousCursor' = [j \in JIDS |-> 0]
    /\ hadError' = [j \in JIDS |-> FALSE]
    /\ outputSentToUser' = [j \in JIDS |-> FALSE]
    /\ hadStreamingOutput' = [j \in JIDS |-> FALSE]
    /\ output' = [j \in JIDS |-> "none"]
    /\ pgmReturn' = [j \in JIDS |-> "none"]
    /\ liveRunners' = [j \in JIDS |-> 0]
    /\ idleTimer' = [j \in JIDS |-> "off"]
    /\ stdinClosed' = [j \in JIDS |-> FALSE]
    /\ delivered' = CommitAll(delivered)
    /\ UNCHANGED <<nonCoreVars, messages, db, lastTimestamp, lastAgentTimestamp, tasks>>

\* index.ts:426-438 recoverPendingMessages, over the loaded cursors.
recoverPendingMessages(lat) ==
    queued' = [j \in JIDS |->
                 IF getMessagesSince(j, lat[j]) # {} THEN <<"check">> ELSE <<>>]

\* Mutant: the agent cursors are not loaded.
LoadedAgentTimestampReset == [j \in JIDS |-> 0]

\* index.ts:69-75 loadState: the persisted agent cursors.
LoadedAgentTimestamp == db.last_agent_timestamp

\* index.ts:520-608 main: loadState, recoverPendingMessages, and the first
\* iteration of startMessageLoop, which runs before main yields.
Startup ==
    /\ ~up
    /\ up' = TRUE
    /\ lastAgentTimestamp' = LoadedAgentTimestamp
    /\ recoverPendingMessages(lastAgentTimestamp')
    /\ Observe(db.last_timestamp, lastAgentTimestamp')
    /\ UNCHANGED <<nonCoreVars, idleVars, messages, qActive, qProcess, runPc, previousCursor, hadError,
                   outputSentToUser, hadStreamingOutput, prompt, runInput,
                   output, liveRunners, delivered, pgmReturn, crashes, tasks>>

\* ------------------------------------------------------------ singleton lock

\* Processes started at the same time on one host; each is its own PID.
PROCS == {"p1", "p2", "p3"}

NoFile == [exists |-> FALSE, creator |-> "nobody", written |-> FALSE]

\* A lock file left by a process that is gone.
StaleFile == [exists |-> TRUE, creator |-> "dead", written |-> TRUE]

\* index.ts:463-465: the PID parsed from the lock file; "nil" when the file
\* cannot be read or holds no valid PID.
ParsedPid(file) ==
    IF file.exists /\ file.written THEN file.creator ELSE "nil"

\* index.ts:472 process.kill(pid, 0): the PID names a running process.
IsAlive(pid) == pid \in PROCS /\ lockPc[pid] # "exited"

InitLock ==
    /\ lockFile \in {NoFile, StaleFile}
    /\ lockPc = [p \in PROCS |-> "open"]
    /\ attempt = [p \in PROCS |-> 0]
    /\ existingPid = [p \in PROCS |-> "nil"]

\* No process is starting: the state of the lock in the core's runs.
LockAtRest ==
    /\ lockFile = NoFile
    /\ lockPc = [p \in PROCS |-> "open"]
    /\ attempt = [p \in PROCS |-> 0]
    /\ existingPid = [p \in PROCS |-> "nil"]

\* index.ts:451 openSync(lockPath, 'wx') creates the file.
LockCreate(p) ==
    /\ lockPc[p] = "open"
    /\ attempt[p] < 2
    /\ ~lockFile.exists
    /\ lockFile' = [exists |-> TRUE, creator |-> p, written |-> FALSE]
    /\ lockPc' = [lockPc EXCEPT ![p] = "write"]
    /\ UNCHANGED <<nonLockVars, attempt, existingPid>>

\* index.ts:456-459 openSync fails with EEXIST.
LockExists(p) ==
    /\ lockPc[p] = "open"
    /\ attempt[p] < 2
    /\ lockFile.exists
    /\ lockPc' = [lockPc EXCEPT ![p] = "read"]
    /\ UNCHANGED <<nonLockVars, lockFile, attempt, existingPid>>

\* index.ts:452-455 the PID is written through the descriptor and the
\* function returns: the process believes it holds the lock.
LockWritePid(p) ==
    /\ lockPc[p] = "write"
    /\ lockFile' = IF lockFile.exists /\ lockFile.creator = p
                   THEN [lockFile EXCEPT !.written = TRUE]
                   ELSE lockFile
    /\ lockPc' = [lockPc EXCEPT ![p] = "held"]
    /\ UNCHANGED <<nonLockVars, attempt, existingPid>>

\* index.ts:461-468 the lock file is read.
LockRead(p) ==
    /\ lockPc[p] = "read"
    /\ existingPid' = [existingPid EXCEPT ![p] = ParsedPid(lockFile)]
    /\ lockPc' = [lockPc EXCEPT ![p] = "probe"]
    /\ UNCHANGED <<nonLockVars, lockFile, attempt>>

\* index.ts:470-477 the PID read names a live process: fatal exit.
LockHolderAlive(p) ==
    /\ lockPc[p] = "probe"
    /\ existingPid[p] \notin {"nil", p}
    /\ IsAlive(existingPid[p])
    /\ lockPc' = [lockPc EXCEPT ![p] = "exited"]
    /\ UNCHANGED <<nonLockVars, lockFile, attempt, existingPid>>

\* index.ts:478-485 the lock is taken for stale.
LockStale(p) ==
    /\ lockPc[p] = "probe"
    /\ existingPid[p] \in {"nil", p} \/ ~IsAlive(existingPid[p])
    /\ lockPc' = [lockPc EXCEPT ![p] = "unlink"]
    /\ UNCHANGED <<nonLockVars, lockFile, attempt, existingPid>>

\* index.ts:487-488 unlinkSync removes whatever file is at the path; the
\* loop goes round.
LockUnlink(p) ==
    /\ lockPc[p] = "unlink"
    /\ lockFile.exists
    /\ lockFile' = NoFile
    /\ attempt' = [attempt EXCEPT ![p] = @ + 1]
    /\ lockPc' = [lockPc EXCEPT ![p] = "open"]
    /\ UNCHANGED <<nonLockVars, existingPid>>

\* index.ts:489-495 unlinkSync throws: fatal exit.
LockUnlinkFails(p) ==
    /\ lockPc[p] = "unlink"
    /\ ~lockFile.exists
    /\ lockPc' = [lockPc EXCEPT ![p] = "exited"]
    /\ UNCHANGED <<nonLockVars, lockFile, attempt, existingPid>>

\* index.ts:499-500 both attempts failed: fatal exit.
LockGiveUp(p) ==
    /\ lockPc[p] = "open"
    /\ attempt[p] >= 2
    /\ lockPc' = [lockPc EXCEPT ![p] = "exited"]
    /\ UNCHANGED <<nonLockVars, lockFile, attempt, existingPid>>

\* -------------------------------------------------------- group registration

\* Folders a registration may name: a path is a sequence of segments, and
\* is absolute when it starts with "/".
FolderInputs ==
    [absolute : BOOLEAN,
     segs : {<<>>, <<"main">>, <<"family">>, <<"family", "chat">>,
             <<"..">>, <<"family", "..">>}]

GroupNames == {"Family", "Work"}

Groups == [name : GroupNames, folder : FolderInputs]

\* Group folder policy: a non-empty relative path with no ".." segment.
ValidFolder(folder) ==
    /\ ~folder.absolute
    /\ Len(folder.segs) > 0
    /\ \A k \in 1..Len(folder.segs) : folder.segs[k] # ".."

\* index.ts:92 resolveGroupFolderPath throws for a folder the policy rejects.
resolveGroupFolderPathThrows(folder) == ~ValidFolder(folder)

NoGroup == [name |-> "none"]

InitReg ==
    /\ registeredGroups = [j \in JIDS |-> NoGroup]
    /\ dbGroups = [j \in JIDS |-> NoGroup]
    /\ groupDirs = {}
    /\ regLog = "none"

\* Mutant: the folder is not checked before the group is registered.
registerGroupUnchecked(jid, group) ==
    /\ registeredGroups' = [registeredGroups EXCEPT ![jid] = group]
    /\ dbGroups' = [dbGroups EXCEPT ![jid] = group]
    /\ groupDirs' = groupDirs \cup {group.folder}
    /\ regLog' = "registered"
    /\ UNCHANGED nonRegVars

\* index.ts:89-111 registerGroup.
registerGroup(jid, group) ==
    /\ IF resolveGroupFolderPathThrows(group.folder)
       THEN /\ regLog' = "rejected"
            /\ UNCHANGED <<registeredGroups, dbGroups, groupDirs>>
       ELSE /\ registeredGroups' = [registeredGroups EXCEPT ![jid] = group]
            /\ dbGroups' = [dbGroups EXCEPT ![jid] = group]
            /\ groupDirs' = groupDirs \cup {group.folder}
            /\ regLog' = "registered"
    /\ UNCHANGED nonRegVars

\* ------------------------------------------------------------- game engine
\* One Night Ultimate Werewolf engine (game-engine.mjs): the state file and
\* the commands init, night, player-view, vote and resolve.

\* Player names, in the order of --names; the names of a game are distinct,
\* as the default names are (game-engine.mjs:130-132).
Names == <<"An", "Binh", "Chi", "Dung", "Em", "Giang">>

\* --names with the first n names.
NamesOf(n) == SubSeq(Names, 1, n)

\* --names with the first n - 1 names and a comma after the last: split and
\* trim give the empty string as the last name (game-engine.mjs:130-131).
NamesThenComma(n) == Append(SubSeq(Names, 1, n - 1), "")

\* game-engine.mjs:31-40 ROLE_DEFS: the roles with a nightOrder, in order.
WakeOrder == <<"werewolf", "mason", "seer", "robber", "troublemaker", "drunk">>

\* ROLE_DEFS: the roles with nightOrder null.
SleepingRoles == {"hunter", "villager"}

\* game-engine.mjs:42-47 CONFIGS; "none" for a count with no configuration.
CONFIGS(n) ==
    CASE n = 3 -> <<"werewolf", "werewolf", "seer", "robber", "troublemaker", "villager">>
      [] n = 4 -> <<"werewolf", "werewolf", "seer", "robber", "troublemaker", "villager",
                    "villager">>
      [] n = 5 -> <<"werewolf", "werewolf", "seer", "robber", "troublemaker", "drunk",
                    "villager", "villager">>
      [] OTHER -> <<"werewolf", "werewolf", "seer", "robber", "troublemaker", "drunk",
                    "hunter", "villager", "villager">>

\* Indices of the elements of seq equal to value, in increasing order.
RECURSIVE IndicesOf(_, _, _)
IndicesOf(seq, value, from) ==
    IF from > Len(seq) THEN <<>>
    ELSE IF seq[from] = value
         THEN <<from>> \o IndicesOf(seq, value, from + 1)
         ELSE IndicesOf(seq, value, from + 1)

\* game-engine.mjs:117-124: the last two villagers become masons.
WithMasons(pool) ==
    LET v == IndicesOf(pool, "villager", 1)
    IN  [i \in 1..Len(pool) |->
            IF Len(v) >= 2 /\ i \in {v[Len(v)], v[Len(v) - 1]} THEN "mason" ELSE pool[i]]

\* game-engine.mjs:125-128: fewer than two villagers to replace.
NotEnoughVillagers(pool) == Len(IndicesOf(pool, "villager", 1)) < 2

\* game-engine.mjs:53-60 shuffle: the orders of the pool that are drawn
\* here, the pool turned left by k places.
Rotate(seq, k) ==
    [i \in 1..Len(seq) |-> seq[((i - 1 + k) % Len(seq)) + 1]]

NoResult == [eliminated |-> <<>>, hunterKills |-> <<>>, winner |-> "none",
             winnerTeam |-> "none"]

\* No state file.
NoGame == [phase |-> "nofile"]

\* No command was given yet.
NoOut == [cmd |-> "none"]

GameAtRest == game = NoGame /\ cmdOut = NoOut

\* The last command: its name and arguments, its exit status and what it
\* printed.
Out(cmd, args, status, out) ==
    [cmd |-> cmd, status |-> status, args |-> args, out |-> out]

\* game-engine.mjs:70-76 loadState: no state file, exit 1.
StateFileMissing(g) == g.phase = "nofile"

\* game-engine.mjs:137-154: the state of a new game.
NewGame(playerNames, shuffled) ==
    [phase |-> "night",
     players |-> [i \in 1..Len(playerNames) |->
                    [name |-> playerNames[i], originalRole |-> shuffled[i],
                     currentRole |-> shuffled[i]]],
     centerCards |-> SubSeq(shuffled, Len(playerNames) + 1, Len(shuffled)),
     originalCenter |-> SubSeq(shuffled, Len(playerNames) + 1, Len(shuffled)),
     nightActions |-> <<>>,
     votes |-> <<>>,
     result |-> NoResult]

\* Mutant: init does not count the names.
InitRefusedWhateverNames(n, mason, playerNames) ==
    \/ n < 3 \/ n > 6
    \/ mason /\ NotEnoughVillagers(CONFIGS(n))

\* game-engine.mjs:109-137: the arguments init refuses.
InitRefused(n, mason, playerNames) ==
    \/ n < 3 \/ n > 6
    \/ mason /\ NotEnoughVillagers(CONFIGS(n))
    \/ Len(playerNames) # n

\* game-engine.mjs:108-173 cmdInit, with --players n, the --mason flag, the
\* outcome of the shuffle and the list of --names.
cmdInit(n, mason, k, playerNames) ==
    /\ IF InitRefused(n, mason, playerNames)
       THEN /\ cmdOut' = Out("init", <<>>, "error", <<>>)
            /\ UNCHANGED game
       ELSE LET rolePool == IF mason THEN WithMasons(CONFIGS(n)) ELSE CONFIGS(n)
            IN  /\ k < Len(rolePool)
                /\ game' = NewGame(playerNames, Rotate(rolePool, k))
                /\ cmdOut' = Out("init", <<>>, "ok", <<>>)
    /\ UNCHANGED nonGameVars

\* ------------------------------------------------------------------- night

\* Position of the player called name, 0 when there is none
\* (players.find, game-engine.mjs:346, 406, 407).
RECURSIVE FindFrom(_, _, _)
FindFrom(players, name, from) ==
    IF from > Len(players) THEN 0
    ELSE IF players[from].name = name THEN from
    ELSE FindFrom(players, name, from + 1)

FindPlayer(players, name) == FindFrom(players, name, 1)

RECURSIVE HoldersFrom(_, _, _, _)
HoldersFrom(players, role, from, byCurrent) ==
    IF from > Len(players) THEN <<>>
    ELSE LET r == IF byCurrent THEN players[from].currentRole
                  ELSE players[from].originalRole
         IN  IF r = role
             THEN <<from>> \o HoldersFrom(players, role, from + 1, byCurrent)
             ELSE HoldersFrom(players, role, from + 1, byCurrent)

\* Mutant: the holders of a role are those who hold its card now.
HoldersByCurrentRole(players, role) == HoldersFrom(players, role, 1, TRUE)

\* game-engine.mjs:197: the players originally dealt the role, in order.
Holders(players, role) == HoldersFrom(players, role, 1, FALSE)

\* The names of the players at the positions idx.
NamesAt(players, idx) == [k \in 1..Len(idx) |-> players[idx[k]].name]

\* seq without its elements equal to x.
RECURSIVE Without(_, _)
Without(seq, x) ==
    IF seq = <<>> THEN <<>>
    ELSE IF Head(seq) = x THEN Without(Tail(seq), x)
    ELSE <<Head(seq)>> \o Without(Tail(seq), x)

\* A center index as it is printed.
IdxText(ci) == <<"0", "1", "2">>[ci + 1]

\* An entry of nightActions.  detail is the text before ": " and what
\* follows it (detail.split(': ')[1]).
NightAction(role, actor, action, targets, centerIndices, newRole, text, after) ==
    [role |-> role, actor |-> actor, action |-> action, targets |-> targets,
     centerIndices |-> centerIndices, newRole |-> newRole,
     detail |-> [text |-> text, after |-> after]]

\* The cards of two players exchanged.
SwapCards(players, a, b) ==
    [players EXCEPT ![a].currentRole = players[b].currentRole,
                    ![b].currentRole = players[a].currentRole]

\* game-engine.mjs:202-226 werewolf; ci is the center card a lone wolf
\* peeks at.
WerewolfStep(ns, ci) ==
    LET wolves == Holders(ns.players, "werewolf")
        names == NamesAt(ns.players, wolves)
    IN  IF Len(wolves) = 0 THEN ns
        ELSE IF Len(wolves) >= 2
        THEN [ns EXCEPT !.actions = @ \o
                [k \in 1..Len(wolves) |->
                    NightAction("werewolf", names[k], "see_partner", <<>>, <<>>, "",
                                <<"Saw fellow wolf(s)">>, Without(names, names[k]))]]
        ELSE [ns EXCEPT !.actions = Append(@,
                    NightAction("werewolf", names[1], "peek_center", <<>>, <<ci>>, "",
                                <<"Peeked at center card", IdxText(ci)>>, <<ns.center[ci + 1]>>))]

\* game-engine.mjs:228-242 mason.
MasonStep(ns) ==
    LET masons == Holders(ns.players, "mason")
        names == NamesAt(ns.players, masons)
    IN  [ns EXCEPT !.actions = @ \o
            [k \in 1..Len(masons) |->
                IF Len(names) >= 2
                THEN NightAction("mason", names[k], "see_partner", <<>>, <<>>, "",
                                 <<"Saw fellow Mason(s)">>, Without(names, names[k]))
                ELSE NightAction("mason", names[k], "see_partner", <<>>, <<>>, "",
                                 <<"No other Mason found (partner may be in center)">>,
                                 <<>>)]]

\* What the seer may do: two center cards in an order, or one other player.
SeerChoices(n) ==
    {[center |-> TRUE, indices |-> <<i, j>>, target |-> 0] :
        i \in 0..2, j \in 0..2} \cup
    {[center |-> FALSE, indices |-> <<>>, target |-> t] : t \in 1..n}

\* game-engine.mjs:244-267 seer.
SeerStep(ns, choice) ==
    LET seers == Holders(ns.players, "seer")
        seer == ns.players[seers[1]]
    IN  IF Len(seers) = 0 THEN ns
        ELSE IF choice.center
        THEN [ns EXCEPT !.actions = Append(@,
                NightAction("seer", seer.name, "peek_two_center", <<>>, choice.indices, "",
                            <<"Peeked at center cards", IdxText(choice.indices[1]), "and",
                              IdxText(choice.indices[2])>>,
                            <<ns.center[choice.indices[1] + 1],
                              ns.center[choice.indices[2] + 1]>>))]
        ELSE [ns EXCEPT !.actions = Append(@,
                NightAction("seer", seer.name, "peek_player",
                            <<ns.players[choice.target].name>>, <<>>, "",
                            <<"Peeked at card of", ns.players[choice.target].name>>,
                            <<ns.players[choice.target].currentRole>>))]

\* Mutant: the robber records the card it gave away.
RobberStepRecordsOldRole(ns, target) ==
    LET robbers == Holders(ns.players, "robber")
        robber == robbers[1]
    IN  IF Len(robbers) = 0 THEN ns
        ELSE [ns EXCEPT
                !.players = SwapCards(ns.players, robber, target),
                !.actions = Append(@,
                    NightAction("robber", ns.players[robber].name, "swap_and_view",
                                <<ns.players[target].name>>, <<>>,
                                ns.players[robber].currentRole,
                                <<"Swapped with", ns.players[target].name,
                                  "and saw new role">>,
                                <<ns.players[robber].currentRole>>))]

\* game-engine.mjs:269-285 robber.
RobberStep(ns, target) ==
    LET robbers == Holders(ns.players, "robber")
        robber == robbers[1]
    IN  IF Len(robbers) = 0 THEN ns
        ELSE [ns EXCEPT
                !.players = SwapCards(ns.players, robber, target),
                !.actions = Append(@,
                    NightAction("robber", ns.players[robber].name, "swap_and_view",
                                <<ns.players[target].name>>, <<>>,
                                ns.players[target].currentRole,
                                <<"Swapped with", ns.players[target].name,
                                  "and saw new role">>,
                                <<ns.players[target].currentRole>>))]

\* game-engine.mjs:287-304 troublemaker.
TroublemakerStep(ns, t1, t2) ==
    LET tms == Holders(ns.players, "troublemaker")
    IN  IF Len(tms) = 0 THEN ns
        ELSE [ns EXCEPT
                !.players = SwapCards(ns.players, t1, t2),
                !.actions = Append(@,
                    NightAction("troublemaker", ns.players[tms[1]].name, "swap_others",
                                <<ns.players[t1].name, ns.players[t2].name>>, <<>>, "",
                                <<"Swapped cards of", ns.players[t1].name, "and",
                                  ns.players[t2].name>>,
                                <<>>))]

\* Mutant: the drunk takes the center card and leaves none in its place.
DrunkStepLeavesNoCard(ns, ci) ==
    LET drunks == Holders(ns.players, "drunk")
        drunk == drunks[1]
    IN  IF Len(drunks) = 0 THEN ns
        ELSE [ns EXCEPT
                !.players[drunk].currentRole = ns.center[ci + 1],
                !.actions = Append(@,
                    NightAction("drunk", ns.players[drunk].name, "swap_center",
                                <<>>, <<ci>>, "",
                                <<"Swapped own card with center card", IdxText(ci),
                                  "(did not look)">>,
                                <<>>))]

\* game-engine.mjs:306-320 drunk.
DrunkStep(ns, ci) ==
    LET drunks == Holders(ns.players, "drunk")
        drunk == drunks[1]
    IN  IF Len(drunks) = 0 THEN ns
        ELSE [ns EXCEPT
                !.players[drunk].currentRole = ns.center[ci + 1],
                !.center[ci + 1] = ns.players[drunk].currentRole,
                !.actions = Append(@,
                    NightAction("drunk", ns.players[drunk].name, "swap_center",
                                <<>>, <<ci>>, "",
                                <<"Swapped own card with center card", IdxText(ci),
                                  "(did not look)">>,
                                <<>>))]

\* game-engine.mjs:62-68 pickRandom over the players at the positions arr:
\* a player is left out when its name is in excludeNames; a player whose
\* name is the empty string is compared as the object it is and is never
\* left out.
pickRandom(players, arr, excludeNames) ==
    {i \in arr : players[i].name = "" \/ players[i].name \notin excludeNames}

\* players.filter(p => p.name !== name) (game-engine.mjs:257, 271, 289).
OtherThan(players, i) ==
    {j \in 1..Len(players) : players[j].name # players[i].name}

\* The random choices of one night: what pickRandom, shuffle and
\* Math.random let the code draw.  A role dealt to no player, and a wolf
\* that is not alone, draws nothing (one value stands for that).
NightChoices(players) ==
    LET n == Len(players)
        Dealt(role) == Len(Holders(players, role)) > 0
        OthersOf(role) == OtherThan(players, Holders(players, role)[1])
    IN  [wolfCenter : IF Len(Holders(players, "werewolf")) = 1 THEN 0..2 ELSE {0},
         seer : IF Dealt("seer")
                THEN {c \in SeerChoices(n) :
                        /\ c.center => c.indices[1] # c.indices[2]
                        /\ ~c.center => c.target \in pickRandom(players, OthersOf("seer"), {})}
                ELSE {[center |-> TRUE, indices |-> <<0, 1>>, target |-> 0]},
         robberTarget : IF Dealt("robber")
                        THEN pickRandom(players, OthersOf("robber"), {})
                        ELSE {0},
         tm : IF Dealt("troublemaker")
              THEN {t \in OthersOf("troublemaker") \X OthersOf("troublemaker") :
                        /\ t[1] \in pickRandom(players, OthersOf("troublemaker"), {})
                        /\ t[2] \in pickRandom(players, OthersOf("troublemaker"),
                                                {players[t[1]].name})}
              ELSE {<<0, 0>>},
         drunkCenter : IF Dealt("drunk") THEN 0..2 ELSE {0}]

\* game-engine.mjs:193-322: the roles wake in nightOrder.
RunNight(g, c) ==
    DrunkStep(
      TroublemakerStep(
        RobberStep(
          SeerStep(
            MasonStep(
              WerewolfStep([players |-> g.players, center |-> g.centerCards,
                            actions |-> <<>>],
                           c.wolfCenter)),
            c.seer),
          c.robberTarget),
        c.tm[1], c.tm[2]),
      c.drunkCenter)

\* Mutant: night runs in any phase.
NightAllowedAlways(g) == TRUE

\* game-engine.mjs:180: night runs only in the phase night.
NightAllowed(g) == g.phase = "night"

\* game-engine.mjs:176-334 cmdNight.
cmdNight ==
    /\ IF StateFileMissing(game) \/ ~NightAllowed(game)
       THEN /\ cmdOut' = Out("night", <<>>, "error", <<>>)
            /\ UNCHANGED game
       ELSE \E c \in NightChoices(game.players) :
              /\ LET ns == RunNight(game, c)
                 IN  game' = [game EXCEPT !.players = ns.players,
                                          !.centerCards = ns.center,
                                          !.nightActions = ns.actions,
                                          !.phase = "day"]
              /\ cmdOut' = Out("night", <<>>, "ok", <<>>)
    /\ UNCHANGED nonGameVars

\* ------------------------------------------------------------- player-view

\* The entries of actions whose actor is name, in order.
RECURSIVE ActionsOf(_, _)
ActionsOf(actions, name) ==
    IF actions = <<>> THEN <<>>
    ELSE IF Head(actions).actor = name
         THEN <<Head(actions)>> \o ActionsOf(Tail(actions), name)
         ELSE ActionsOf(Tail(actions), name)

\* game-engine.mjs:366: the first peek_center entry of the player.
RECURSIVE FirstPeekCenter(_, _)
FirstPeekCenter(actions, name) ==
    IF Head(actions).actor = name /\ Head(actions).action = "peek_center"
    THEN Head(actions)
    ELSE FirstPeekCenter(Tail(actions), name)

\* Mutant: the Drunk is told the card it took.
SwapCenterInfoRevealing(g, name, action) ==
    <<"You swapped your card with a center card.", "Your new role is",
      g.players[FindPlayer(g.players, name)].currentRole>>

\* game-engine.mjs:383-385: what a Drunk is told.
SwapCenterInfo(g, name, action) ==
    <<"You swapped your card with a center card.",
      "You did NOT look at your new card.">>

\* game-engine.mjs:361-386: the line of the view for one night action.
NightInfo(g, name, action) ==
    CASE action.action = "see_partner" ->
            action.detail.text \o action.detail.after
      [] action.action = "peek_center" ->
            <<"You peeked at center card", IdxText(action.centerIndices[1]),
              "and saw">> \o FirstPeekCenter(g.nightActions, name).detail.after
      [] action.action = "peek_player" ->
            <<"You looked at card of", action.targets[1], "and saw">>
                \o action.detail.after
      [] action.action = "peek_two_center" ->
            <<"You looked at center cards", IdxText(action.centerIndices[1]), "and",
              IdxText(action.centerIndices[2]), "and saw">> \o action.detail.after
      [] action.action = "swap_and_view" ->
            <<"You swapped your card with card of", action.targets[1],
              "Your new role is", action.newRole>>
      [] action.action = "swap_others" ->
            <<"You swapped cards of", action.targets[1], "and", action.targets[2],
              "You did not look at either card.">>
      [] action.action = "swap_center" -> SwapCenterInfo(g, name, action)
      [] OTHER -> <<>>

\* game-engine.mjs:352-395: the view printed for the player called name.
PlayerView(g, name) ==
    LET player == g.players[FindPlayer(g.players, name)]
        myActions == ActionsOf(g.nightActions, name)
        info == [k \in 1..Len(myActions) |-> NightInfo(g, name, myActions[k])]
    IN  [player |-> name,
         originalRole |-> player.originalRole,
         nightInfo |->
            IF Len(info) = 0 /\ player.originalRole \in {"villager", "hunter"}
            THEN <<<<"You slept through the night.",
                     "You have no special information.">>>>
            ELSE info]

\* Arguments a command may be given for a player: the names of the game,
\* a name that is no player's, and none ("").
NameArgs(n) == {Names[i] : i \in 1..n} \cup {"Ghost", ""}

\* game-engine.mjs:336-396 cmdPlayerView.
cmdPlayerView(name) ==
    /\ IF \/ StateFileMissing(game)
          \/ name = ""
          \/ FindPlayer(game.players, name) = 0
       THEN cmdOut' = Out("player-view", <<name>>, "error", <<>>)
       ELSE cmdOut' = Out("player-view", <<name>>, "ok", PlayerView(game, name))
    /\ UNCHANGED <<game, nonGameVars>>

\* -------------------------------------------------------------------- vote

\* Mutant: a vote for oneself is accepted.
VoteRefusedUnlessUnknown(g, voter, target) ==
    \/ voter = "" \/ target = ""
    \/ FindPlayer(g.players, voter) = 0
    \/ FindPlayer(g.players, target) = 0

\* game-engine.mjs:402-419: the checks of cmdVote.
VoteRefused(g, voter, target) ==
    \/ voter = "" \/ target = ""
    \/ FindPlayer(g.players, voter) = 0
    \/ FindPlayer(g.players, target) = 0
    \/ voter = target

\* game-engine.mjs:421 state.votes[voter] = target: the entry of the voter
\* is replaced where it is, a new one is added at the end.
SetVote(votes, voter, target) ==
    IF \E k \in 1..Len(votes) : votes[k].voter = voter
    THEN [k \in 1..Len(votes) |->
            IF votes[k].voter = voter
            THEN [voter |-> voter, target |-> target] ELSE votes[k]]
    ELSE Append(votes, [voter |-> voter, target |-> target])

\* game-engine.mjs:398-433 cmdVote.
cmdVote(voter, target) ==
    /\ IF StateFileMissing(game) \/ VoteRefused(game, voter, target)
       THEN /\ cmdOut' = Out("vote", <<voter, target>>, "error", <<>>)
            /\ UNCHANGED game
       ELSE /\ game' = [game EXCEPT !.votes = SetVote(@, voter, target)]
            /\ cmdOut' = Out("vote", <<voter, target>>, "ok", <<>>)
    /\ UNCHANGED nonGameVars

\* ----------------------------------------------------------------- resolve

\* game-engine.mjs:448-451 tally[name]: the number of votes whose target
\* is name.
VotesFor(votes, name) ==
    Cardinality({k \in 1..Len(votes) : votes[k].target = name})

\* game-engine.mjs:448-451: the keys of tally, in the order in which the
\* targets first appear among the votes.
RECURSIVE TallyNames(_, _)
TallyNames(votes, seen) ==
    IF votes = <<>> THEN seen
    ELSE IF \E k \in 1..Len(seen) : seen[k] = Head(votes).target
         THEN TallyNames(Tail(votes), seen)
         ELSE TallyNames(Tail(votes), Append(seen, Head(votes).target))

\* game-engine.mjs:451 maxVotes.
MaxVotes(votes, names) ==
    CHOOSE m \in {VotesFor(votes, names[k]) : k \in 1..Len(names)} :
        \A k \in 1..Len(names) : VotesFor(votes, names[k]) <= m

\* Mutant: a complete scatter is not told from a tie.
ScatterNever(g) == FALSE

\* game-engine.mjs:452, 456: every player received exactly one vote.
Scatter(g) ==
    LET names == TallyNames(g.votes, <<>>)
        maxVotes == MaxVotes(g.votes, names)
    IN  /\ \A k \in 1..Len(names) : VotesFor(g.votes, names[k]) = maxVotes
        /\ Len(names) = Len(g.players)
        /\ maxVotes = 1

\* The elements of names with count votes, in order.
RECURSIVE WithCount(_, _, _)
WithCount(votes, names, count) ==
    IF names = <<>> THEN <<>>
    ELSE IF VotesFor(votes, Head(names)) = count
         THEN <<Head(names)>> \o WithCount(votes, Tail(names), count)
         ELSE WithCount(votes, Tail(names), count)

\* game-engine.mjs:454-463: the players eliminated by the vote.
VoteEliminated(g) ==
    LET names == TallyNames(g.votes, <<>>)
    IN  IF Scatter(g) THEN <<>>
        ELSE WithCount(g.votes, names, MaxVotes(g.votes, names))

InSeq(x, seq) == \E k \in 1..Len(seq) : seq[k] = x

\* game-engine.mjs:473-475: the names of the players other than name that
\* are not eliminated, in the order of the players.
RECURSIVE OtherPlayers(_, _, _)
OtherPlayers(players, name, eliminated) ==
    IF players = <<>> THEN <<>>
    ELSE IF Head(players).name # name /\ ~InSeq(Head(players).name, eliminated)
         THEN <<Head(players).name>> \o OtherPlayers(Tail(players), name, eliminated)
         ELSE OtherPlayers(Tail(players), name, eliminated)

\* Mutant: the Hunter's choice is taken as given.
HunterVictimAsNamed(otherPlayers, hunterTarget, pick) ==
    IF hunterTarget # "" THEN hunterTarget
    ELSE otherPlayers[((pick - 1) % Len(otherPlayers)) + 1]

\* game-engine.mjs:477-482: the named target when it is one of the others,
\* a random one of them otherwise.
HunterVictim(otherPlayers, hunterTarget, pick) ==
    IF hunterTarget # "" /\ InSeq(hunterTarget, otherPlayers)
    THEN hunterTarget
    ELSE otherPlayers[((pick - 1) % Len(otherPlayers)) + 1]

\* game-engine.mjs:470-488: the loop over eliminated, which goes on over
\* the names it adds; r holds eliminated and hunterKills.
RECURSIVE HunterChain(_, _, _, _, _)
HunterChain(g, r, k, hunterTarget, pick) ==
    IF k > Len(r.eliminated) THEN r
    ELSE LET name == r.eliminated[k]
             p == FindPlayer(g.players, name)
             otherPlayers == OtherPlayers(g.players, name, r.eliminated)
         IN  IF p # 0 /\ g.players[p].currentRole = "hunter" /\ Len(otherPlayers) > 0
             THEN LET victim == HunterVictim(otherPlayers, hunterTarget, pick)
                  IN  HunterChain(g,
                          [eliminated |-> Append(r.eliminated, victim),
                           hunterKills |-> Append(r.hunterKills,
                                              [hunter |-> name, target |-> victim])],
                          k + 1, hunterTarget, pick)
             ELSE HunterChain(g, r, k + 1, hunterTarget, pick)

\* Mutant: the winner is told from the cards as dealt.
WinnerByOriginalRole(g, eliminated) ==
    LET wolves == {i \in 1..Len(g.players) : g.players[i].originalRole = "werewolf"}
        wolfEliminated == \E i \in wolves : InSeq(g.players[i].name, eliminated)
    IN  IF Len(eliminated) = 0
        THEN (IF wolves = {} THEN "village" ELSE "wolf")
        ELSE (IF wolfEliminated THEN "village" ELSE "wolf")

\* game-engine.mjs:490-502: the winner.
Winner(g, eliminated) ==
    LET wolvesAmongPlayers ==
            {i \in 1..Len(g.players) : g.players[i].currentRole = "werewolf"}
        wolfEliminated ==
            \E i \in wolvesAmongPlayers : InSeq(g.players[i].name, eliminated)
    IN  IF Len(eliminated) = 0
        THEN (IF wolvesAmongPlayers = {} THEN "village" ELSE "wolf")
        ELSE (IF wolfEliminated THEN "village" ELSE "wolf")

\* game-engine.mjs:511: the team name stored with the result.
WinnerTeam(winner) ==
    IF winner = "village" THEN "Village (Dân Làng)" ELSE "Werewolf (Ma Sói)"

\* game-engine.mjs:504-522: the result.
Result(g, hunterTarget, pick) ==
    LET r == HunterChain(g, [eliminated |-> VoteEliminated(g), hunterKills |-> <<>>],
                         1, hunterTarget, pick)
    IN  [eliminated |-> r.eliminated, hunterKills |-> r.hunterKills,
         winner |-> Winner(g, r.eliminated),
         winnerTeam |-> WinnerTeam(Winner(g, r.eliminated))]

\* Mutant: resolve asks for one vote only.
VotesMissingOnlyIfNone(g) == Len(g.votes) = 0

\* game-engine.mjs:440-445: fewer votes than players are recorded.
VotesMissing(g) == Len(g.votes) < Len(g.players)

\* game-engine.mjs:435-527 cmdResolve, with --hunter-target ("" when not
\* given) and the outcome of the random choice.
cmdResolve(hunterTarget, pick) ==
    /\ IF StateFileMissing(game) \/ VotesMissing(game)
       THEN /\ cmdOut' = Out("resolve", <<hunterTarget>>, "error", <<>>)
            /\ UNCHANGED game
       ELSE LET result == Result(game, hunterTarget, pick)
            IN  /\ game' = [game EXCEPT !.result = result, !.phase = "end"]
                /\ cmdOut' = Out("resolve", <<hunterTarget>>, "ok", result)
    /\ UNCHANGED nonGameVars

\* game-engine.mjs:564, 629: the team names of the two languages.
Teams(lang) ==
    IF lang = "en" THEN [wolf |-> "Werewolf Team", village |-> "Village Team"]
    ELSE [wolf |-> "Phe Ma Sói", village |-> "Phe Dân Làng"]

\* game-engine.mjs:693-695 tTeam.
tTeam(lang, team) == Teams(lang)[team]

\* game-engine.mjs:889: the team the game-end section announces.
WinTeam(lang, r) ==
    tTeam(lang, IF r.winnerTeam = "Village" THEN "village" ELSE "wolf")

\* game-engine.mjs:894-903: which explanation the game-end section gives.
Explain(g, r) ==
    IF Len(r.eliminated) = 0
       /\ \A i \in 1..Len(g.players) : g.players[i].currentRole # "werewolf"
    THEN "explainAllCenter"
    ELSE IF Len(r.eliminated) = 0 THEN "explainScatter"
    ELSE IF r.winnerTeam = "Village" THEN "explainVillageWin"
    ELSE "explainWolfWin"

\* game-engine.mjs:731-934 cmdLog with --event game-end and --lang vi or en
\* (869-928): refused without a state file or a result; otherwise the
\* section is appended to the game log, here kept as the command's output:
\* who was eliminated, the announced team and the explanation.
cmdLogGameEnd(lang) ==
    /\ IF StateFileMissing(game) \/ game.result.winner = "none"
       THEN cmdOut' = Out("log", <<"game-end", lang>>, "error", <<>>)
       ELSE cmdOut' = Out("log", <<"game-end", lang>>, "ok",
                          [eliminated |-> game.result.eliminated,
                           winTeam |-> WinTeam(lang, game.result),
                           explain |-> Explain(game, game.result)])
    /\ UNCHANGED game
    /\ UNCHANGED nonGameVars

\* ---------------------------------------------------------- slash commands

\* A text is a sequence of pieces: a word without '/', '@' or white space,
\* or one of those characters. " " is the space, "\t" any other white space.
WhiteSpace == {" ", "\t"}

Words == {"reset", "RESET", "usage", "now", "bot"}

\* The pieces the free texts of the model are made of.
Pieces == {"/", "@", "reset", "RESET", "now"} \cup WhiteSpace

\* String.prototype.toLowerCase on the words of the model.
toLowerCase(text) ==
    [i \in 1..Len(text) |-> IF text[i] = "RESET" THEN "reset" ELSE text[i]]

\* String.prototype.trim.
RECURSIVE trim(_)
trim(text) ==
    IF text = <<>> THEN text
    ELSE IF Head(text) \in WhiteSpace THEN trim(Tail(text))
    ELSE IF text[Len(text)] \in WhiteSpace THEN trim(SubSeq(text, 1, Len(text) - 1))
    ELSE text

\* String.prototype.indexOf: the 0-based place of the first ch, or -1.
indexOf(text, ch) ==
    IF \E i \in 1..Len(text) : text[i] = ch
    THEN (CHOOSE i \in 1..Len(text) :
              text[i] = ch /\ \A j \in 1..(i - 1) : text[j] # ch) - 1
    ELSE -1

\* String.prototype.slice(start, end) with 0 <= start <= end.
slice(text, start, end) == SubSeq(text, start + 1, end)

\* commands.ts:449 split(/\s+/).filter(Boolean): the runs of pieces that
\* are not white space, from place i on, cur being the run under way.
RECURSIVE splitWords(_, _, _)
splitWords(text, i, cur) ==
    IF i > Len(text) THEN (IF cur = <<>> THEN <<>> ELSE <<cur>>)
    ELSE IF text[i] \in WhiteSpace
         THEN (IF cur = <<>> THEN <<>> ELSE <<cur>>) \o splitWords(text, i + 1, <<>>)
         ELSE splitWords(text, i + 1, Append(cur, text[i]))

\* commands.ts:397-411 initCommands: of the thirteen commands of the
\* registry, the two whose handlers are modelled.
commands == {"reset", "usage"}

\* What a reset handler given to setResetConversationHandler may do when
\* called: resolve, with or without closedActiveContainer, or reject.
ResetHandlers == {"resolves", "resolvesClosed", "rejects"}

\* The outcome of a handler: its response, whether it threw, and how often
\* it called the reset-conversation handler.
Answer(response, calls) == [response |-> response, threw |-> FALSE, resetCalls |-> calls]

\* Mutant: /reset ignores its arguments.
resetHandlerWhateverArgs(args, fn) ==
    IF fn = "null" THEN Answer("*Error:* Reset handler not available", 0)
    ELSE IF fn = "rejects" THEN [response |-> "", threw |-> TRUE, resetCalls |-> 1]
    ELSE IF fn = "resolvesClosed"
         THEN Answer("*Conversation reset.* _Stopped the active agent_", 1)
    ELSE Answer("*Conversation reset.*", 1)

\* commands.ts:378-393 resetHandler, fn being resetConversation.
resetHandler(args, fn) ==
    IF Len(args) > 0 THEN Answer("*Usage:* /reset", 0)
    ELSE IF fn = "null" THEN Answer("*Error:* Reset handler not available", 0)
    ELSE IF fn = "rejects" THEN [response |-> "", threw |-> TRUE, resetCalls |-> 1]
    ELSE IF fn = "resolvesClosed"
         THEN Answer("*Conversation reset.* _Stopped the active agent_", 1)
    ELSE Answer("*Conversation reset.*", 1)

\* commands.ts:371-373 usageHandler.
usageHandler == Answer("*Usage tracking:* Not yet implemented.", 0)

\* Mutant: the name is looked up with the bot's name still attached.
ParsedKeepingBot(trimmed) ==
    LET spaceIdx == indexOf(trimmed, " ")
    IN  [cmdName |-> toLowerCase(IF spaceIdx = -1
                                 THEN slice(trimmed, 1, Len(trimmed))
                                 ELSE slice(trimmed, 1, spaceIdx)),
         atIdx |-> -1,
         args |-> IF spaceIdx = -1 THEN <<>>
                  ELSE splitWords(slice(trimmed, spaceIdx + 1, Len(trimmed)), 1, <<>>)]

\* commands.ts:439-456: command name and arguments of a trimmed text that
\* starts with '/'.
Parsed(trimmed) ==
    LET spaceIdx == indexOf(trimmed, " ")
        name == toLowerCase(IF spaceIdx = -1
                            THEN slice(trimmed, 1, Len(trimmed))
                            ELSE slice(trimmed, 1, spaceIdx))
        atIdx == indexOf(name, "@")
    IN  [cmdName |-> IF atIdx > 0 THEN slice(name, 0, atIdx) ELSE name,
         atIdx |-> atIdx,
         args |-> IF spaceIdx = -1 THEN <<>>
                  ELSE splitWords(slice(trimmed, spaceIdx + 1, Len(trimmed)), 1, <<>>)]

\* commands.ts:428-478 handleCommand: the result it returns, with the
\* command name and arguments it parsed, the handler it reached ("none"
\* when it reached none) and the calls of the reset-conversation handler.
HandleCommand(content, fn) ==
    LET trimmed == trim(content)
        p == Parsed(trimmed)
        known == Len(p.cmdName) = 1 /\ p.cmdName[1] \in commands
        a == IF p.cmdName[1] = "reset" THEN resetHandler(p.args, fn) ELSE usageHandler
    IN  IF trimmed = <<>> \/ trimmed[1] # "/"
        THEN [content |-> content, handled |-> FALSE, response |-> "",
              cmdName |-> <<>>, atIdx |-> -1, args |-> <<>>,
              handler |-> "none", resetCalls |-> 0]
        ELSE IF ~known
        THEN [content |-> content, handled |-> TRUE, response |-> "*Unknown command:*",
              cmdName |-> p.cmdName, atIdx |-> p.atIdx, args |-> p.args,
              handler |-> "none", resetCalls |-> 0]
        ELSE [content |-> content, handled |-> TRUE,
              response |-> IF a.threw THEN "*Error:* Command failed" ELSE a.response,
              cmdName |-> p.cmdName, atIdx |-> p.atIdx, args |-> p.args,
              handler |-> p.cmdName[1], resetCalls |-> a.resetCalls]

\* The state when the module is loaded: no reset handler, no call yet.
NoCall == [content |-> <<>>]

CmdAtRest == cmds = [resetConversation |-> "null", commandResult |-> NoCall]

\* commands.ts:21-23 the registered handler, "null" when there is none.
resetConversation == cmds.resetConversation

\* commands.ts:418-421 the result of the last handleCommand call.
commandResult == cmds.commandResult

\* ---------------------------------------------------------------- bot pool

\* The tokens initBotPool is called with (TELEGRAM_BOT_POOL).
Tokens == <<"token-1", "token-2">>

\* Sender names, as texts: "name64" is a piece of 64 characters, the other
\* pieces are shorter.
Senders == {<<"Ann">>, <<" ", "Ann">>, <<>>, <<"Agent">>, <<"name64">>, <<"name64", "x">>}

\* The senders and group folders sendPoolMessage is called with: every
\* sender in one folder, one of them in the other folder too.
PoolInputs ==
    {[sender |-> sender, groupFolder |-> "team-a"] : sender \in Senders}
    \cup {[sender |-> <<"Ann">>, groupFolder |-> "team-b"]}

\* Characters of a piece.
PieceLength(piece) ==
    IF piece = "name64" THEN 64
    ELSE IF piece = "Agent" THEN 5
    ELSE IF piece = "Ann" THEN 3
    ELSE 1

RECURSIVE TextLength(_)
TextLength(text) ==
    IF text = <<>> THEN 0 ELSE PieceLength(Head(text)) + TextLength(Tail(text))

\* String.prototype.slice(0, n) of a text that n characters do not cut
\* inside a piece.
RECURSIVE sliceChars(_, _)
sliceChars(text, n) ==
    IF text = <<>> \/ PieceLength(Head(text)) > n THEN <<>>
    ELSE <<Head(text)>> \o sliceChars(Tail(text), n - PieceLength(Head(text)))

\* telegram.ts:28-33 normalizeSenderName.
normalizeSenderName(sender) ==
    LET trimmed == trim(sender)
    IN  IF trimmed = <<>> THEN <<"Agent">> ELSE sliceChars(trimmed, 64)

\* telegram.ts:87 `${groupFolder}:${normalizedSender}`; a group folder
\* holds no ':'.
PoolKey(groupFolder, normalizedSender) == <<groupFolder, ":">> \o normalizedSender

\* The sendPoolMessage calls that can be in flight together.
PoolCallIds == {"call-1", "call-2"}

NoPoolCall == [pc |-> "idle"]

\* telegram.ts:20-26 when the module is loaded, with no call in flight.
PoolAtRest ==
    botPool = [poolApis |-> <<>>, senderBotMap |-> {}, nextPoolIndex |-> 0,
            mainSender |-> "null", initPc |-> 0,
            poolCalls |-> [c \in PoolCallIds |-> NoPoolCall], sentVia |-> {}]

\* telegram.ts:21 the pool bots, by token.
poolApis == botPool.poolApis

\* telegram.ts:23 key -> index into poolApis.
senderBotMap == botPool.senderBotMap

\* telegram.ts:24.
nextPoolIndex == botPool.nextPoolIndex

\* telegram.ts:25 registered ("set") or "null".
mainSender == botPool.mainSender

\* initBotPool: not running (0), or the token whose getMe it awaits.
initPc == botPool.initPc

\* Per sendPoolMessage call in flight, where it is.
poolCalls == botPool.poolCalls

\* <<key, bot>> of the messages sent by calls made since initBotPool.
sentVia == botPool.sentVia

\* Mutant: the map is never found to hold the key.
senderBotMapGetNothing(key) == -1

\* telegram.ts:88 senderBotMap.get(key), -1 standing for undefined.
senderBotMapGet(key) ==
    IF \E e \in senderBotMap : e.key = key
    THEN (CHOOSE e \in senderBotMap : e.key = key).idx
    ELSE -1

\* telegram.ts:36-40 registerMainTelegramSender.
registerMainTelegramSender ==
    /\ botPool' = [botPool EXCEPT !.mainSender = "set"]
    /\ UNCHANGED <<cmds, dotenv, nonSideVars>>

\* telegram.ts:46-51 initBotPool up to its first await (index.ts:568 awaits
\* the call): pool, map and counter are emptied. Calls of sendPoolMessage
\* in flight go on with the index they hold; they are marked as started
\* before this call.
initBotPool ==
    /\ initPc = 0
    /\ botPool' = [botPool EXCEPT
                    !.poolApis = <<>>,
                    !.senderBotMap = {},
                    !.nextPoolIndex = 0,
                    !.initPc = 1,
                    !.poolCalls = [c \in PoolCallIds |->
                        IF poolCalls[c].pc \in {"idle", "main", "send"} THEN poolCalls[c]
                        ELSE [poolCalls[c] EXCEPT !.stale = TRUE]],
                    !.sentVia = {}]
    /\ UNCHANGED <<cmds, dotenv, nonSideVars>>

\* telegram.ts:51-64: api.getMe() of the token awaited settles; the bot is
\* added to the pool unless it failed.
initBotPoolGetMe(ok) ==
    /\ initPc > 0
    /\ botPool' = [botPool EXCEPT
                    !.poolApis = IF ok THEN Append(poolApis, Tokens[initPc]) ELSE poolApis,
                    !.initPc = IF initPc < Len(Tokens) THEN initPc + 1 ELSE 0]
    /\ UNCHANGED <<cmds, dotenv, nonSideVars>>

\* telegram.ts:108-114: the bot at the index the call holds is read from
\* the pool and sendMessage is called on it for the first chunk; with no
\* bot at that index the call throws and ends (123-128). The pool after.
StartSending(call, c) ==
    IF call.idx < Len(poolApis)
    THEN [botPool EXCEPT
            !.poolCalls[c] = [pc |-> "send"],
            !.sentVia = IF call.stale THEN sentVia
                        ELSE sentVia \cup {<<call.key, poolApis[call.idx + 1]>>}]
    ELSE [botPool EXCEPT !.poolCalls[c] = NoPoolCall]

\* telegram.ts:75-93 sendPoolMessage up to its first await: with an empty
\* pool the main sender, if any,
\* is called; a key not yet in the map gets the next index and the bot is
\* renamed; a key in the map goes on to send.
sendPoolMessage(c, sender, groupFolder) ==
    /\ poolCalls[c].pc = "idle"
    /\ IF Len(poolApis) = 0
       THEN botPool' = [botPool EXCEPT !.poolCalls[c] =
                        IF mainSender = "set" THEN [pc |-> "main"] ELSE NoPoolCall]
       ELSE LET key == PoolKey(groupFolder, normalizeSenderName(sender))
                idx == senderBotMapGet(key)
                new == nextPoolIndex % Len(poolApis)
                call(i) == [pc |-> "rename", key |-> key, idx |-> i, stale |-> FALSE]
            IN  IF idx = -1
                THEN botPool' = [botPool EXCEPT
                                !.nextPoolIndex = nextPoolIndex + 1,
                                !.senderBotMap = senderBotMap \cup {[key |-> key, idx |-> new]},
                                !.poolCalls[c] = call(new)]
                ELSE botPool' = StartSending(call(idx), c)
    /\ UNCHANGED <<cmds, dotenv, nonSideVars>>

\* telegram.ts:81: the main sender settles.
mainSenderDone(c) ==
    /\ poolCalls[c].pc = "main"
    /\ botPool' = [botPool EXCEPT !.poolCalls[c] = NoPoolCall]
    /\ UNCHANGED <<cmds, dotenv, nonSideVars>>

\* telegram.ts:94-105: setMyName settles; after it resolved the call waits
\* two seconds, after it rejected the call goes on to send.
setMyNameDone(c, ok) ==
    /\ poolCalls[c].pc = "rename"
    /\ botPool' = IF ok THEN [botPool EXCEPT !.poolCalls[c].pc = "timeout"]
               ELSE StartSending(poolCalls[c], c)
    /\ UNCHANGED <<cmds, dotenv, nonSideVars>>

\* telegram.ts:96: the two seconds are over.
timeoutDone(c) ==
    /\ poolCalls[c].pc = "timeout"
    /\ botPool' = StartSending(poolCalls[c], c)
    /\ UNCHANGED <<cmds, dotenv, nonSideVars>>

\* telegram.ts:111-128: sendMessage settles; after it resolved and with
\* more of the text left, the next chunk is sent through the same bot;
\* otherwise the call ends.
sendMessageDone(c, more) ==
    /\ poolCalls[c].pc = "send"
    /\ botPool' = [botPool EXCEPT !.poolCalls[c] = IF more THEN @ ELSE NoPoolCall]
    /\ UNCHANGED <<cmds, dotenv, nonSideVars>>

\* ------------------------------------------------------------------- .env

\* env.ts:24, 58 content.split('\n'): the lines of a text, cur being the
\* line under way from place i on.
RECURSIVE splitLines(_, _, _)
splitLines(text, i, cur) ==
    IF i > Len(text) THEN <<cur>>
    ELSE IF text[i] = "\n" THEN <<cur>> \o splitLines(text, i + 1, <<>>)
    ELSE splitLines(text, i + 1, Append(cur, text[i]))

\* env.ts:93 newLines.join('\n').
RECURSIVE joinLines(_)
joinLines(lines) ==
    IF lines = <<>> THEN <<>>
    ELSE IF Len(lines) = 1 THEN lines[1]
    ELSE lines[1] \o <<"\n">> \o joinLines(Tail(lines))

\* env.ts:25-29, 64-74: a line that is blank, a comment or without '='
\* holds no key.
HoldsKey(line) ==
    LET trimmed == trim(line)
    IN  trimmed # <<>> /\ trimmed[1] # "#" /\ indexOf(trimmed, "=") # -1

\* env.ts:27-29, 70-74: the key of a line that holds one.
KeyOf(line) ==
    LET trimmed == trim(line)
    IN  trim(slice(trimmed, 0, indexOf(trimmed, "=")))

\* env.ts:31-38: the value of a line that holds a key, without the quotes
\* around it.
ValueOf(line) ==
    LET trimmed == trim(line)
        value == trim(slice(trimmed, indexOf(trimmed, "=") + 1, Len(trimmed)))
    IN  IF value # <<>> /\ value[1] = value[Len(value)] /\ value[1] \in {"\"", "'"}
        THEN SubSeq(value, 2, Len(value) - 1)
        ELSE value

\* The .env file is absent.
NoEnvFile == [exists |-> FALSE]

\* env.ts:14-20, 50-55: the content read, '' for updateEnvFile when the
\* file is absent.
ContentOf(file) == IF file.exists THEN file.content ELSE <<>>

\* env.ts:22-42: the result after the lines up to n, as a function of the
\* requested keys, <<>> standing for a key the result does not hold.
RECURSIVE ReadLines(_, _, _)
ReadLines(lines, n, keys) ==
    IF n = 0 THEN [k \in keys |-> <<>>]
    ELSE LET result == ReadLines(lines, n - 1, keys)
             line == lines[n]
         IN  IF HoldsKey(line) /\ KeyOf(line) \in keys /\ ValueOf(line) # <<>>
             THEN [result EXCEPT ![KeyOf(line)] = ValueOf(line)]
             ELSE result

\* env.ts:13-43 readEnvFile.
ReadEnvFile(file, keys) ==
    IF ~file.exists THEN [k \in keys |-> <<>>]
    ELSE LET lines == splitLines(file.content, 1, <<>>)
         IN  ReadLines(lines, Len(lines), keys)

\* env.ts:59 the keys of the updates.
UpdatedKeys(updates) == {updates[i].key : i \in 1..Len(updates)}

\* Mutant: every key is given the value of the first update.
UpdateOfFirst(updates, key) == updates[1].value

\* env.ts:76 updates[key].
UpdateOf(updates, key) ==
    (CHOOSE e \in {updates[i] : i \in 1..Len(updates)} : e.key = key).value

\* env.ts:49-94 updateEnvFile: the content written. updates are the entries
\* of the object, in its order.
UpdatedContent(file, updates) ==
    LET lines == splitLines(ContentOf(file), 1, <<>>)
        Replaced(line) == HoldsKey(line) /\ KeyOf(line) \in UpdatedKeys(updates)
        kept == [i \in 1..Len(lines) |->
                    IF Replaced(lines[i])
                    THEN KeyOf(lines[i]) \o <<"=">> \o UpdateOf(updates, KeyOf(lines[i]))
                    ELSE lines[i]]
        foundKeys == {KeyOf(lines[i]) : i \in {j \in 1..Len(lines) : Replaced(lines[j])}}
        added == SelectSeq(updates, LAMBDA e : e.key \notin foundKeys)
        newLines == kept \o [i \in 1..Len(added) |-> added[i].key \o <<"=">> \o added[i].value]
    IN  joinLines(newLines) \o <<"\n">>

NoEnvCall == [op |-> "none"]

EnvAtRest == dotenv = [envFile |-> NoEnvFile, envCall |-> NoEnvCall]

\* env.ts:5 the .env file: absent, or its content.
envFile == dotenv.envFile

\* The last call of readEnvFile or updateEnvFile.
envCall == dotenv.envCall

\* env.ts:13-43 readEnvFile.
readEnvFile(keys) ==
    /\ dotenv' = [dotenv EXCEPT !.envCall =
                     [op |-> "read", keys |-> keys, result |-> ReadEnvFile(envFile, keys)]]
    /\ UNCHANGED <<cmds, botPool, nonSideVars>>

\* env.ts:49-94 updateEnvFile, on a file of at most three lines (every call
\* adds a line to a file that ends with a newline).
updateEnvFile(updates) ==
    /\ Len(splitLines(ContentOf(envFile), 1, <<>>)) <= 3
    /\ dotenv' = [envFile |-> [exists |-> TRUE,
                                content |-> UpdatedContent(envFile, updates)],
                  envCall |-> [op |-> "update", updates |-> updates]]
    /\ UNCHANGED <<cmds, botPool, nonSideVars>>

\* In the runs of the core and of the game the three parts are not called:
\* their variables hold no state.
Unused == <<>>

SideAtRest == cmds = Unused /\ botPool = Unused /\ dotenv = Unused

\* commands.ts:32-36 setResetConversationHandler.
setResetConversationHandler(fn) ==
    /\ cmds' = [cmds EXCEPT !.resetConversation = fn]
    /\ UNCHANGED <<botPool, dotenv, nonSideVars>>

\* commands.ts:428-478 handleCommand.
handleCommand(content) ==
    /\ cmds' = [cmds EXCEPT !.commandResult = HandleCommand(content, resetConversation)]
    /\ UNCHANGED <<botPool, dotenv, nonSideVars>>

\* ------------------------------------------------------------ specification

Init == InitCore /\ LockAtRest /\ InitReg /\ SideAtRest /\ GameAtRest

Next ==
    \/ \E jid \in JIDS, ts \in NewTimestamps : StoreMessage(jid, ts)
    \/ PollObserve
    \/ RouterDispatch
    \/ RouterThrows
    \/ \E jid \in JIDS : PGM_NoPending(jid)
    \/ \E jid \in JIDS : PGM_Claim(jid)
    \/ \E jid \in JIDS : AgentSpawn(jid)
    \/ \E jid \in JIDS : RunAgentThrows(jid)
    \/ \E jid \in JIDS, status \in Statuses, payload \in Payloads, stored \in BOOLEAN :
          StreamRecord(jid, status, payload, stored)
    \/ \E jid \in JIDS : IdleExpire(jid)
    \/ \E jid \in JIDS, code \in {0, 1} : AgentExit(jid, code)
    \/ \E jid \in JIDS : PGM_Finish(jid)
    \/ \E jid \in JIDS : TaskDue(jid)
    \/ \E jid \in JIDS : TaskStart(jid)
    \/ \E jid \in JIDS, payload \in Payloads, stored \in BOOLEAN :
          TaskStreamRecord(jid, payload, stored)
    \/ \E jid \in JIDS : TaskFinish(jid)
    \/ \E jid \in JIDS : QueueRelease(jid)
    \/ Crash
    \/ Startup

Spec == Init /\ [][Next]_vars

\* What the code's scheduling guarantees: the poll loop keeps polling, the
\* queue keeps starting and finishing work, a started container exits in
\* the end, and a crashed process is restarted.  Nothing forces a message
\* to arrive, a record to be streamed, a task to come due or a crash.
Fairness ==
    /\ WF_vars(PollObserve)
    /\ WF_vars(RouterDispatch)
    /\ WF_vars(Startup)
    /\ \A jid \in JIDS :
        /\ WF_vars(PGM_NoPending(jid))
        /\ WF_vars(PGM_Claim(jid))
        /\ WF_vars(AgentSpawn(jid))
        /\ WF_vars(\E code \in {0, 1} : AgentExit(jid, code))
        /\ WF_vars(PGM_Finish(jid))
        /\ WF_vars(TaskStart(jid))
        /\ WF_vars(TaskFinish(jid))
        /\ WF_vars(QueueRelease(jid))

FairSpec == Spec /\ Fairness

\* Concurrent starts of the process: the steps of acquireSingletonLock.
InitL == InitCore /\ InitLock /\ InitReg /\ SideAtRest /\ GameAtRest

NextLock ==
    \/ \E p \in PROCS : LockCreate(p)
    \/ \E p \in PROCS : LockExists(p)
    \/ \E p \in PROCS : LockWritePid(p)
    \/ \E p \in PROCS : LockRead(p)
    \/ \E p \in PROCS : LockHolderAlive(p)
    \/ \E p \in PROCS : LockStale(p)
    \/ \E p \in PROCS : LockUnlink(p)
    \/ \E p \in PROCS : LockUnlinkFails(p)
    \/ \E p \in PROCS : LockGiveUp(p)

SpecLock == InitL /\ [][NextLock]_vars

\* Registrations, in any order (startIpcWatcher, index.ts:596).
NextReg == \E jid \in JIDS, group \in Groups : registerGroup(jid, group)

SpecReg == Init /\ [][NextReg]_vars

\* The game engine alone: the commands of a three-player game from no
\* state file on, in any order.  Each player votes for the next player or
\* for itself; SpecVote has every argument of vote.
NextGame ==
    \/ \E n \in {2, 3}, mason \in BOOLEAN, k \in 0..5 : cmdInit(n, mason, k, NamesOf(n))
    \/ cmdNight
    \/ \E name \in NameArgs(3) : cmdPlayerView(name)
    \/ \E i \in 1..3, t \in 1..3 :
          /\ t \in {i, (i % 3) + 1}
          /\ cmdVote(Names[i], Names[t])
    \/ \E hunterTarget \in {"", "An"} : cmdResolve(hunterTarget, 1)

SpecGame == Init /\ [][NextGame]_vars

\* init and vote: every deal of a three-player game and every pair of
\* arguments of vote.
NextVote ==
    \/ \E k \in 0..5 : cmdInit(3, FALSE, k, NamesOf(3))
    \/ \E voter \in NameArgs(3), target \in NameArgs(3) : cmdVote(voter, target)

SpecVote == Init /\ [][NextVote]_vars

\* The games of SpecNight: every deal of three players, and deals of six
\* players with masons: all the other waking roles among the players, the
\* two masons among them, one mason among them.
NightGames ==
    {[n |-> 3, mason |-> FALSE, k |-> k] : k \in 0..5}
    \cup {[n |-> 3, mason |-> TRUE, k |-> 0]}
    \cup {[n |-> 6, mason |-> TRUE, k |-> k] : k \in {0, 3, 8}}

\* init, night and player-view.
NextNight ==
    \/ \E i \in NightGames : cmdInit(i.n, i.mason, i.k, NamesOf(i.n))
    \/ cmdNight
    \/ \E name \in NameArgs(6) : cmdPlayerView(name)

SpecNight == Init /\ [][NextNight]_vars

\* resolve as a function of the state file it reads: games of three and of
\* six players after a night and the votes.

\* The nights of the games of SpecResolve: every card the robber and the
\* drunk may take, the troublemaker exchanging the first two of the other
\* players; the peeks, which move no card, are fixed.
ResolveNights(players) ==
    {c \in NightChoices(players) :
        /\ c.wolfCenter = 0
        /\ c.seer.center /\ c.seer.indices = <<0, 1>>
        /\ \/ c.tm = <<0, 0>>
           \/ /\ c.tm[1] < c.tm[2]
              /\ \A t \in 1..(c.tm[2] - 1) :
                    t \in {c.tm[1], Holders(players, "troublemaker")[1]}}

\* The state file after init with the deal k and the night with choices c.
AfterNight(n, k, c) ==
    LET g == NewGame(NamesOf(n), Rotate(CONFIGS(n), k))
        ns == RunNight(g, c)
    IN  [g EXCEPT !.players = ns.players, !.centerCards = ns.center,
                  !.nightActions = ns.actions, !.phase = "day"]

\* The votes of the games of SpecResolve, cast in the order of the players:
\* with three players each votes for either of the others, with six for
\* one of the next two; all have voted, or all but the last.
ResolveVotes(n) ==
    LET Targets(i) == IF n = 3 THEN (1..n) \ {i}
                      ELSE {(i % n) + 1, ((i + 1) % n) + 1}
        Complete == {t \in [1..n -> 1..n] : \A i \in 1..n : t[i] \in Targets(i)}
        Profile(t, m) == [i \in 1..m |-> [voter |-> Names[i], target |-> Names[t[i]]]]
    IN  {Profile(t, n) : t \in Complete}
        \cup {Profile([i \in 1..n |-> (i % n) + 1], n - 1)}

ResolveGames ==
    UNION {UNION {{[AfterNight(d.n, d.k, c) EXCEPT !.votes = v] : v \in ResolveVotes(d.n)} :
                    c \in ResolveNights(NewGame(NamesOf(d.n), Rotate(CONFIGS(d.n), d.k)).players)} :
             d \in {[n |-> 3, k |-> k] : k \in 0..5}
                    \cup {[n |-> 6, k |-> k] : k \in {0, 3, 6}}}

\* A game of ResolveGames is on file and its last vote was the last command.
InitResolve ==
    /\ InitCore /\ LockAtRest /\ InitReg /\ SideAtRest
    /\ game \in ResolveGames
    /\ LET last == game.votes[Len(game.votes)]
       IN  cmdOut = Out("vote", <<last.voter, last.target>>, "ok", <<>>)

\* --hunter-target: not given, the first, the fourth or the sixth player.
NextResolve ==
    \E hunterTarget \in {"", Names[1], Names[4], Names[6]}, pick \in 1..5 :
        cmdResolve(hunterTarget, pick)

SpecResolve == InitResolve /\ [][NextResolve]_vars

\* resolve without --hunter-target, and the game-end section of the log
\* in either language, on the games of SpecResolve.
NextLog ==
    \/ \E pick \in 1..5 : cmdResolve("", pick)
    \/ \E lang \in {"vi", "en"} : cmdLogGameEnd(lang)

SpecLog == InitResolve /\ [][NextLog]_vars

\* The texts of at most n pieces.
RECURSIVE TextsUpTo(_)
TextsUpTo(n) ==
    IF n = 0 THEN {<<>>}
    ELSE LET shorter == TextsUpTo(n - 1)
         IN  shorter \cup {Append(t, x) : t \in shorter, x \in Pieces}

\* '/name@bot' or '/name', then the arguments, each after one space.
CommandText(name, bot, argv) ==
    <<"/", name>> \o (IF bot # "" THEN <<"@", bot>> ELSE <<>>)
        \o (IF Len(argv) >= 1 THEN <<" ", argv[1]>> ELSE <<>>)
        \o (IF Len(argv) >= 2 THEN <<" ", argv[2]>> ELSE <<>>)

ArgLists == {<<>>, <<"now">>, <<"now", "bot">>, <<"RESET", "now">>}

\* The messages the commands are called with: every text of up to three
\* pieces, and the commands addressed to a bot or not, with up to two
\* arguments.
Contents ==
    TextsUpTo(3)
    \cup {CommandText(name, bot, argv) :
            name \in {"reset", "RESET", "usage", "now"},
            bot \in {"", "bot", "reset"}, argv \in ArgLists}

InitCmd ==
    /\ InitCore /\ LockAtRest /\ InitReg /\ GameAtRest
    /\ CmdAtRest /\ botPool = Unused /\ dotenv = Unused

NextCmd ==
    \/ \E fn \in ResetHandlers : setResetConversationHandler(fn)
    \/ \E content \in Contents : handleCommand(content)

SpecCmd == InitCmd /\ [][NextCmd]_vars

InitPool ==
    /\ InitCore /\ LockAtRest /\ InitReg /\ GameAtRest
    /\ cmds = Unused /\ PoolAtRest /\ dotenv = Unused

\* Lines of a .env file: comments, a blank line, keys with their values,
\* bare, spaced and quoted, a key without a value and a word without '='.
EnvLines ==
    {<<"#", "K1", "=", "v1">>, <<>>, <<"K1", "=", "v1">>,
     <<" ", "K1", " ", "=", " ", "v1">>, <<"K1", "=", "\"", "v2", "\"">>,
     <<"K2", "=", "'", "v1", "'">>, <<"K2", "=", "v2">>, <<"K1", "=">>, <<"K1">>}

\* The files the calls start from: none, or up to two lines, with or
\* without the newline at the end.
EnvFiles ==
    LET contents == {<<>>} \cup EnvLines
                    \cup {a \o <<"\n">> \o b : a \in EnvLines, b \in EnvLines}
    IN  {NoEnvFile}
        \cup {[exists |-> TRUE, content |-> c] : c \in contents}
        \cup {[exists |-> TRUE, content |-> Append(c, "\n")] : c \in contents}

\* Keys of updates: two names, and names with a '#' before, a '=' inside,
\* a space before.
EnvKeys == {<<"K1">>, <<"K2">>, <<"#", "K1">>, <<"K1", "=", "K2">>, <<" ", "K1">>}

\* Values of updates: plain, with '=' or a space inside, and values the
\* reader changes: quoted, with a space before, empty.
EnvValues ==
    {<<"v1">>, <<"v2", "=", "v1">>, <<"v1", " ", "v2">>,
     <<"\"", "v1", "\"">>, <<" ", "v1">>, <<>>}

\* One update, or K1 and K2 together in either order.
EnvUpdates ==
    {<<[key |-> k, value |-> v]>> : k \in EnvKeys, v \in EnvValues}
    \cup {<<[key |-> <<"K1">>, value |-> <<"v1">>], [key |-> <<"K2">>, value |-> <<"v1", " ", "v2">>]>>,
          <<[key |-> <<"K2">>, value |-> <<"v2", "=", "v1">>], [key |-> <<"K1">>, value |-> <<"v1">>]>>}

InitEnv ==
    /\ InitCore /\ LockAtRest /\ InitReg /\ GameAtRest
    /\ cmds = Unused /\ botPool = Unused
    /\ dotenv \in {[envFile |-> file, envCall |-> NoEnvCall] : file \in EnvFiles}

NextEnv ==
    \/ \E updates \in EnvUpdates : updateEnvFile(updates)
    \/ \E keys \in {{<<"K1">>, <<"K2">>}, {<<"K1">>}} : readEnvFile(keys)

SpecEnv == InitEnv /\ [][NextEnv]_vars

NextPool ==
    \/ registerMainTelegramSender
    \/ initBotPool
    \/ \E ok \in BOOLEAN : initBotPoolGetMe(ok)
    \/ \E c \in PoolCallIds, in \in PoolInputs :
          sendPoolMessage(c, in.sender, in.groupFolder)
    \/ \E c \in PoolCallIds : mainSenderDone(c)
    \/ \E c \in PoolCallIds, ok \in BOOLEAN : setMyNameDone(c, ok)
    \/ \E c \in PoolCallIds : timeoutDone(c)
    \/ \E c \in PoolCallIds, more \in BOOLEAN : sendMessageDone(c, more)

SpecPool == InitPool /\ [][NextPool]_vars

\* The games init creates whose night is taken: three to six players and
\* four players with masons, every turn of the role pool; the names in full
\* and, with three players, also with the last one empty.
DealtGames ==
    UNION {{NewGame(playerNames,
                    Rotate(IF d.mason THEN WithMasons(CONFIGS(d.n)) ELSE CONFIGS(d.n), k)) :
                k \in 0..(d.n + 2),
                playerNames \in {NamesOf(d.n)}
                                \cup (IF d.n = 3 THEN {NamesThenComma(d.n)} ELSE {})} :
             d \in [n : 3..6, mason : {FALSE}] \cup {[n |-> 4, mason |-> TRUE]}}

\* init has just created a game.
InitDealt ==
    /\ InitCore /\ LockAtRest /\ InitReg /\ SideAtRest
    /\ game \in DealtGames
    /\ cmdOut = Out("init", <<>>, "ok", <<>>)

SpecDealt == InitDealt /\ [][cmdNight]_vars

\* The lists of --names given with --players n: one name short, as many
\* names as players, and as many with the last one empty.
NameLists(n) ==
    {NamesOf(m) : m \in {n - 1, n} \cap 1..Len(Names)}
        \cup (IF n \in 2..Len(Names) THEN {NamesThenComma(n)} ELSE {})

\* init alone, from no state file on and over the game it wrote before,
\* with two to seven players.
NextInit ==
    \E n \in 2..7, mason \in BOOLEAN, k \in 0..8 :
        \E playerNames \in NameLists(n) : cmdInit(n, mason, k, playerNames)

SpecInit == Init /\ [][NextInit]_vars

\* ------------------------------------------------------------------ claims

\* C1: every stored non-bot message is contained in at most one input handed
\* to an agent (initial prompt or piped text), inputs of rolled-back runs
\* not counted.
C1_AtMostOnce ==
    \A i \in Stored : ~messages[i].is_bot_message => delivered[i] <= 1

\* C4: however the steps of acquireSingletonLock of concurrently started
\* processes interleave, with or without a stale lock file, at most one
\* process returns from it believing it holds the lock.
C4_AtMostOneHolder ==
    Cardinality({p \in PROCS : lockPc[p] = "held"}) <= 1

\* ---- helpers of the claims

\* A processGroupMessages call of jid has just returned to the queue.
PgmReturned(jid) == qActive[jid] = "messages" /\ runPc[jid] = "returned"

\* The step is the rollback of processGroupMessages (index.ts:238-245).
RollbackStep(jid) ==
    /\ qActive[jid] = "messages"
    /\ runPc[jid] = "exited"
    /\ runPc'[jid] = "returned"
    /\ pgmReturn'[jid] = "false"
    /\ ~outputSentToUser[jid]
    /\ output[jid] = "error" \/ hadError[jid]

\* Message i was in the batch of an attempt that ended in the rollback.
RolledBack(i) ==
    /\ i \in Stored
    /\ PgmReturned(messages[i].chat_jid)
    /\ pgmReturn[messages[i].chat_jid] = "false"
    /\ i \in prompt[messages[i].chat_jid]

\* C2: under fair scheduling every stored non-bot message is eventually
\* contained in the input of an agent run, unless an attempt that held it
\* ended in the rollback (or the process was killed).
C2_EventuallyDelivered ==
    \A i \in MsgIds :
        \/ <>RolledBack(i)
        \/ (i \in Stored /\ ~messages[i].is_bot_message)
              ~> \/ i \in Stored /\ runInput[messages[i].chat_jid][i] > 0
                 \/ delivered[i] > 0
                 \/ crashes > 0

\* C3: at most one live Agent Runner per chat JID.
C3_OneAgentPerJid == \A jid \in JIDS : liveRunners[jid] <= 1

\* C3 witness: a runner is live for a JID while further work for the same
\* JID waits in the queue.
C3_Witness ==
    \E jid \in JIDS : liveRunners[jid] = 1 /\ queued[jid] # <<>>

\* C5: a processGroupMessages run that ends with terminal status error and
\* no text sent restores the cursor to previousCursor, in memory and
\* persisted, so that its batch is pending again, and returns false.
C5_RollbackOnErrorNoOutput ==
    \A jid \in JIDS :
        (PgmReturned(jid) /\ output[jid] = "error" /\ ~outputSentToUser[jid])
            => /\ lastAgentTimestamp[jid] = previousCursor[jid]
               /\ db.last_agent_timestamp[jid] = previousCursor[jid]
               /\ prompt[jid] \subseteq getMessagesSince(jid, lastAgentTimestamp[jid])
               /\ pgmReturn[jid] = "false"

C5_Witness ==
    \E jid \in JIDS :
        /\ PgmReturned(jid) /\ output[jid] = "error" /\ ~outputSentToUser[jid]
        /\ prompt[jid] # {}
        /\ pgmReturn[jid] = "false"
        /\ lastAgentTimestamp[jid] < LastTs(prompt[jid])

\* C6: a processGroupMessages run that sent output never rolls back: it
\* returns true and the cursor stays at or above its claim, in memory and
\* persisted, so the claimed messages are not pending again.
C6_NoRollbackAfterOutput ==
    \A jid \in JIDS :
        (PgmReturned(jid) /\ outputSentToUser[jid])
            => /\ pgmReturn[jid] = "true"
               /\ lastAgentTimestamp[jid] >= LastTs(prompt[jid])
               /\ db.last_agent_timestamp[jid] >= LastTs(prompt[jid])
               /\ prompt[jid] \cap getMessagesSince(jid, lastAgentTimestamp[jid]) = {}

\* C6 witness: output was sent and the run ended in error.
C6_Witness ==
    \E jid \in JIDS :
        /\ PgmReturned(jid) /\ outputSentToUser[jid]
        /\ output[jid] = "error" \/ hadError[jid]
        /\ pgmReturn[jid] = "true"

\* C7: after processGroupMessages rolled back and returned false, the
\* router enqueues the JID again (or a run for it starts) with no new
\* message and no restart.
C7_ReenqueuedOnNextPoll ==
    \A jid \in JIDS :
        (PgmReturned(jid) /\ pgmReturn[jid] = "false")
            ~> ("check" \in {queued[jid][k] : k \in 1..Len(queued[jid])}
                \/ (qActive[jid] = "messages" /\ runPc[jid] # "returned"))

C9_AgentCursorBelowObserved ==
    \A jid \in JIDS : lastAgentTimestamp[jid] <= lastTimestamp

\* C10: while a processGroupMessages run holds a batch, from before the
\* agent is started on, the persisted cursor is at or above the last
\* timestamp of the batch (equal before the agent starts), and a crash
\* leaves it there.
C10_ClaimBeforeAgent ==
    [][\A jid \in JIDS :
          (qActive[jid] = "messages" /\ runPc[jid] \in {"starting", "running", "exited"})
            => /\ db.last_agent_timestamp[jid] >= LastTs(prompt[jid])
               /\ runPc[jid] = "starting" =>
                    /\ db.last_agent_timestamp[jid] = LastTs(prompt[jid])
                    /\ lastAgentTimestamp[jid] = LastTs(prompt[jid])
                    /\ liveRunners[jid] = 0
                    /\ ~outputSentToUser[jid]
               /\ ~up' => db'.last_agent_timestamp[jid] >= LastTs(prompt[jid])]_vars

\* C10 witness: the agent runs and has sent output on a claimed batch.
C10_Witness ==
    \E jid \in JIDS :
        /\ qActive[jid] = "messages" /\ runPc[jid] = "running"
        /\ outputSentToUser[jid]
        /\ previousCursor[jid] < LastTs(prompt[jid])
        /\ db.last_agent_timestamp[jid] = LastTs(prompt[jid])

\* C11: the batch the router hands to a live agent consists only of rows
\* returned by getMessagesSince(jid, last_agent_timestamp[jid]), i.e. rows
\* newer than the agent cursor.
C11_BatchIsPending ==
    [][\A jid \in JIDS : \A i \in MsgIds :
          (up' /\ runPc[jid] = "running" /\ runInput'[jid][i] > runInput[jid][i])
             => i \in getMessagesSince(jid, lastAgentTimestamp[jid])]_vars

\* C12: in the router, an accepted sendMessage sets last_agent_timestamp[J]
\* to the last timestamp of the batch, persists it, enqueues nothing and
\* starts nothing; a rejected one enqueues a check and leaves the cursor.
C12_PipeOrEnqueue ==
    [][RouterDispatch =>
         LET jid == NextGroup
             groupMessages == {i \in pollMsgs : messages[i].chat_jid = jid}
             batch == messagesToSend(getMessagesSince(jid, lastAgentTimestamp[jid]),
                                     groupMessages)
         IN  IF sendMessage(jid)
             THEN /\ lastAgentTimestamp'[jid] = MaxOf({messages[i].timestamp : i \in batch})
                  /\ db'.last_agent_timestamp = lastAgentTimestamp'
                  /\ db'.last_timestamp = lastTimestamp
                  /\ queued' = queued
                  /\ liveRunners' = liveRunners
                  /\ \A i \in batch : runInput'[jid][i] >= 1
             ELSE /\ queued'[jid] = Append(queued[jid], "check")
                  /\ lastAgentTimestamp' = lastAgentTimestamp
                  /\ db' = db
                  /\ runInput' = runInput
                  /\ liveRunners' = liveRunners]_vars

\* C12 witness: a pipe into the live agent of a messages run has advanced
\* the cursor past the claim of the run, and no check is queued.
C12_Witness ==
    \E jid \in JIDS :
        /\ qActive[jid] = "messages" /\ runPc[jid] = "running"
        /\ prompt[jid] # {}
        /\ lastAgentTimestamp[jid] > LastTs(prompt[jid])
        /\ db.last_agent_timestamp[jid] = lastAgentTimestamp[jid]
        /\ queued[jid] = <<>>
        /\ liveRunners[jid] = 1

\* C13: a message that a crash leaves observed (at or below the persisted
\* last_timestamp) but unclaimed is, after the restart, handed to an agent
\* (unless the process crashes again).
C13_RecoveredAfterCrash ==
    \A i \in MsgIds :
        (/\ ~up /\ crashes = 1
         /\ i \in Stored /\ ~messages[i].is_bot_message
         /\ messages[i].timestamp <= db.last_timestamp
         /\ messages[i].timestamp > db.last_agent_timestamp[messages[i].chat_jid])
            ~> \/ i \in Stored /\ runInput[messages[i].chat_jid][i] > 0
               \/ delivered[i] > 0
               \/ crashes > 1

\* C14: when the terminal status of the Agent Runner is success,
\* processGroupMessages returns true and does not roll the cursor back.
C14_SuccessReturnsTrue ==
    \A jid \in JIDS :
        (PgmReturned(jid) /\ output[jid] = "success")
            => /\ pgmReturn[jid] = "true"
               /\ lastAgentTimestamp[jid] >= LastTs(prompt[jid])

\* C15: while the router handles one group of a poll, the rows of the
\* other groups observed in the same poll leave the poll's work only
\* handled: at or below the agent cursor of their chat (piped or claimed)
\* or with a check enqueued for their chat.
C15_GroupFailureIsolated ==
    [][\A i \in pollMsgs :
          (up' /\ i \notin pollMsgs' /\ messages[i].chat_jid # NextGroup)
             => \/ messages[i].timestamp <= lastAgentTimestamp'[messages[i].chat_jid]
                \/ Len(queued'[messages[i].chat_jid]) > Len(queued[messages[i].chat_jid])]_vars

\* C16: processGroupMessages(J) with nothing pending returns true, starts
\* no agent and leaves last_timestamp and every last_agent_timestamp entry
\* unchanged, in memory and persisted.
C16_NoPendingIsNoOp ==
    [][\A jid \in JIDS :
          (/\ CheckIsNext(jid)
           /\ getMessagesSince(jid, lastAgentTimestamp[jid]) = {}
           /\ qActive'[jid] = "messages")
             => /\ pgmReturn'[jid] = "true"
                /\ runPc'[jid] = "returned"
                /\ liveRunners' = liveRunners
                /\ qProcess' = qProcess
                /\ runInput' = runInput
                /\ lastTimestamp' = lastTimestamp
                /\ lastAgentTimestamp' = lastAgentTimestamp
                /\ db' = db]_vars

\* C16 witness: a call with nothing pending has returned, the cursor of the
\* chat being past earlier messages.
C16_Witness ==
    \E jid \in JIDS :
        /\ PgmReturned(jid)
        /\ prompt[jid] = {} /\ output[jid] = "none"
        /\ pgmReturn[jid] = "true"
        /\ liveRunners[jid] = 0
        /\ lastAgentTimestamp[jid] > 0
        /\ db.last_agent_timestamp[jid] = lastAgentTimestamp[jid]

\* C17: a row stored as a reply of the system (is_bot_message, is_from_me)
\* is never pending work (not in a poll, not in a getMessagesSince or
\* getNewMessages result) and never in an input handed to an agent.
C17_BotRowsExcluded ==
    \A i \in Stored :
        (messages[i].is_bot_message \/ messages[i].is_from_me)
            => /\ i \notin pollMsgs
               /\ i \notin getNewMessages(JIDS, lastTimestamp)
               /\ \A jid \in JIDS :
                    /\ i \notin getMessagesSince(jid, lastAgentTimestamp[jid])
                    /\ i \notin prompt[jid]
                    /\ runInput[jid][i] = 0
               /\ delivered[i] = 0

\* C17 witness: a reply newer than both cursors is stored, its run is
\* over, and nothing is queued or left in a poll for the chat.
C17_Witness ==
    \E i \in Stored :
        /\ messages[i].is_bot_message
        /\ messages[i].timestamp > lastAgentTimestamp[messages[i].chat_jid]
        /\ messages[i].timestamp > lastTimestamp
        /\ up /\ pollMsgs = {}
        /\ qActive[messages[i].chat_jid] = "none"
        /\ queued[messages[i].chat_jid] = <<>>

\* C18: in every processGroupMessages run that reaches runAgent,
\* queue.closeStdin(J) is performed by the idle timeout exactly once: an
\* expiry finds the stdin not yet closed by an earlier expiry, the run does
\* not end without one, and none happens once the run has returned.
C18_IdleCloseExactlyOnce ==
    [][\A jid \in JIDS :
          /\ IdleExpire(jid) => (~stdinClosed[jid] /\ runPc[jid] # "returned")
          /\ (/\ qActive[jid] = "messages"
              /\ runPc[jid] = "exited"
              /\ runPc'[jid] = "returned") => stdinClosed[jid]]_vars

C20_NoPipeAfterStdinClosed ==
    [][\A jid \in JIDS :
          (stdinClosed[jid] /\ runPc[jid] = "running" /\ up')
             => /\ \A i \in MsgIds : runInput'[jid][i] <= runInput[jid][i]
                /\ lastAgentTimestamp'[jid] <= lastAgentTimestamp[jid]]_vars

\* C21: a process of acquireSingletonLock that read a live PID other than
\* its own exits and leaves the lock file as it is; a process that read the
\* PID of a dead process does not exit, and returns holding the lock from
\* its second attempt, the file naming it.
C21_LiveExitsDeadReclaims ==
    [][\A p \in PROCS :
          /\ (/\ lockPc[p] = "probe"
              /\ existingPid[p] \notin {"nil", p}
              /\ IsAlive(existingPid[p])
              /\ lockPc'[p] # "probe")
                => (lockPc'[p] = "exited" /\ lockFile' = lockFile)
          /\ (existingPid[p] = "dead" /\ lockPc'[p] # lockPc[p])
                => /\ lockPc'[p] # "exited"
                   /\ lockPc'[p] = "held"
                        => (attempt[p] = 1 /\ lockFile'.creator = p)]_vars

\* C22: registerGroup with a folder the group-folder policy rejects leaves
\* the registered-groups map, the persisted registered groups and the
\* group folders on disk as they were.
C22_RejectedWritesNothing ==
    [][\A jid \in JIDS, group \in Groups :
          (registerGroup(jid, group) /\ ~ValidFolder(group.folder))
             => UNCHANGED <<registeredGroups, dbGroups, groupDirs>>]_vars

\* C22 witness: a registration was refused while a group was registered,
\* and map, table and folders agree.
C22_Witness ==
    /\ regLog = "rejected"
    /\ \E jid \in JIDS : registeredGroups[jid] # NoGroup
    /\ dbGroups = registeredGroups
    /\ groupDirs = {registeredGroups[j].folder : j \in {k \in JIDS : registeredGroups[k] # NoGroup}}

\* C23: a streamed record whose payload is empty once its <internal>
\* blocks are removed sends nothing and leaves outputSentToUser as it was;
\* a run that streamed only such payloads and ends in error restores the
\* cursor, in memory and persisted, and returns false.
C23_InternalOnlyStillRollsBack ==
    [][\A jid \in JIDS :
          /\ \/ runPc[jid] # "running"
             \/ (messages' = messages /\ outputSentToUser' = outputSentToUser)
             \/ \A status \in Statuses, stored \in BOOLEAN :
                   ~StreamRecord(jid, status, "internal", stored)
          /\ (/\ qActive[jid] = "messages"
              /\ runPc[jid] = "exited" /\ runPc'[jid] = "returned"
              /\ hadStreamingOutput[jid] /\ ~outputSentToUser[jid]
              /\ (output[jid] = "error" \/ hadError[jid]))
                => /\ lastAgentTimestamp'[jid] = previousCursor[jid]
                   /\ db'.last_agent_timestamp[jid] = previousCursor[jid]
                   /\ pgmReturn'[jid] = "false"]_vars

\* C23 witness: a run that streamed a payload and sent nothing ended in
\* error and its batch is pending again.
C23_Witness ==
    \E jid \in JIDS :
        /\ PgmReturned(jid)
        /\ hadStreamingOutput[jid] /\ ~outputSentToUser[jid]
        /\ hadError[jid]
        /\ pgmReturn[jid] = "false"
        /\ prompt[jid] # {}
        /\ prompt[jid] \subseteq getMessagesSince(jid, lastAgentTimestamp[jid])

\* C24: the night command succeeds exactly when the stored phase is night,
\* where no night action is stored yet, and then sets the phase to day; in
\* any other phase it fails and leaves the state file as it was.
C24_NightOnlyInNightPhase ==
    [][cmdOut'.cmd = "night"
          => IF game.phase = "night"
             THEN /\ game.nightActions = <<>>
                  /\ cmdOut'.status = "ok"
                  /\ game'.phase = "day"
             ELSE /\ cmdOut'.status = "error"
                  /\ game' = game]_vars

\* C24 witness: night was refused in a finished game whose night actions
\* are stored.
C24_Witness ==
    /\ cmdOut.cmd = "night" /\ cmdOut.status = "error"
    /\ game.phase = "end"
    /\ game.nightActions # <<>>

\* C25: once the night has run, every player originally dealt a waking role
\* is the actor of a night action of that role, whatever card it holds now,
\* every night action of a player is of the role it was dealt, and a player
\* dealt villager or hunter is the actor of none.
C25_ActorsByOriginalRole ==
    game.phase \in {"day", "end"}
        => \A i \in 1..Len(game.players) :
              LET player == game.players[i]
                  mine == ActionsOf(game.nightActions, player.name)
              IN  /\ \A k \in 1..Len(mine) : mine[k].role = player.originalRole
                  /\ InSeq(player.originalRole, WakeOrder) => Len(mine) > 0
                  /\ player.originalRole \in SleepingRoles => Len(mine) = 0

\* C25 witness: the troublemaker, whose card the robber had taken, and the
\* drunk, whose card the troublemaker had moved, both acted.
C25_Witness ==
    /\ game.phase = "day"
    /\ \E i, j \in 1..Len(game.players) :
          LET tm == game.players[i]
              drunk == game.players[j]
          IN  /\ tm.originalRole = "troublemaker" /\ drunk.originalRole = "drunk"
              /\ \E k \in 1..Len(game.nightActions) :
                    /\ game.nightActions[k].role = "robber"
                    /\ game.nightActions[k].targets = <<tm.name>>
              /\ \E k \in 1..Len(game.nightActions) :
                    /\ game.nightActions[k].role = "troublemaker"
                    /\ game.nightActions[k].actor = tm.name
                    /\ InSeq(drunk.name, game.nightActions[k].targets)
              /\ \E k \in 1..Len(game.nightActions) :
                    /\ game.nightActions[k].role = "drunk"
                    /\ game.nightActions[k].actor = drunk.name

\* What player-view may draw on for the player called name: the name, the
\* role dealt to it and the night actions whose actor it is.  Every other
\* part of the state file is replaced by a fixed value.
Scrub(g, name) ==
    [phase |-> "hidden",
     players |-> <<[name |-> name,
                    originalRole |-> g.players[FindPlayer(g.players, name)].originalRole,
                    currentRole |-> "hidden"]>>,
     centerCards |-> <<>>,
     originalCenter |-> <<>>,
     nightActions |-> ActionsOf(g.nightActions, name),
     votes |-> <<>>,
     result |-> NoResult]

\* The names of the roles (ROLE_DEFS).
RoleNames == {WakeOrder[k] : k \in 1..Len(WakeOrder)} \cup SleepingRoles

\* The words of the lines of a view.
ViewWords(view) ==
    UNION {{view.nightInfo[l][w] : w \in 1..Len(view.nightInfo[l])} :
                l \in 1..Len(view.nightInfo)}

\* C29: after the night, the view of a player is the view computed from
\* its name, the role dealt to it and its own night actions alone, so two
\* states that agree on these give the same view; that view is what
\* player-view prints; and no role is named in the view of a player dealt
\* drunk or troublemaker.
C29_ViewFromOwnKnowledgeOnly ==
    game.phase = "day"
        => \A i \in 1..Len(game.players) :
              LET player == game.players[i]
                  view == PlayerView(game, player.name)
              IN  /\ view = PlayerView(Scrub(game, player.name), player.name)
                  /\ (/\ cmdOut.cmd = "player-view" /\ cmdOut.status = "ok"
                      /\ cmdOut.args = <<player.name>>)
                        => cmdOut.out = view
                  /\ player.originalRole \in {"drunk", "troublemaker"}
                        => ViewWords(view) \cap RoleNames = {}

\* C29 witness: player-view printed the one-line view of a player dealt
\* drunk that holds a werewolf card now.
C29_Witness ==
    /\ game.phase = "day"
    /\ cmdOut.cmd = "player-view" /\ cmdOut.status = "ok"
    /\ \E i \in 1..Len(game.players) :
          /\ cmdOut.args = <<game.players[i].name>>
          /\ game.players[i].originalRole = "drunk"
          /\ game.players[i].currentRole = "werewolf"
          /\ Len(cmdOut.out.nightInfo) = 1

\* C30: a step of vote records the vote exactly when voter and target are
\* both players of the game and differ: the voter then has the one entry
\* voter -> target and nothing else of the state changes; in every other
\* case the command fails and the state, the earlier votes included, is as
\* before; no voter has two entries.
C30_VoteOnlyBetweenTwoPlayers ==
    [][cmdOut'.cmd = "vote"
          => LET voter == cmdOut'.args[1]
                 target == cmdOut'.args[2]
                 IsPlayer(name) ==
                    /\ ~StateFileMissing(game)
                    /\ \E i \in 1..Len(game.players) : game.players[i].name = name
                 old == game.votes
                 new == game'.votes
             IN  /\ IF IsPlayer(voter) /\ IsPlayer(target) /\ voter # target
                    THEN /\ cmdOut'.status = "ok"
                         /\ InSeq([voter |-> voter, target |-> target], new)
                         /\ \A k \in 1..Len(old) :
                                old[k].voter # voter => InSeq(old[k], new)
                         /\ \A k \in 1..Len(new) :
                                new[k].voter # voter => InSeq(new[k], old)
                         /\ [game' EXCEPT !.votes = old] = game
                    ELSE /\ cmdOut'.status = "error"
                         /\ game' = game
                 /\ StateFileMissing(game')
                        \/ \A k, l \in 1..Len(new) : new[k].voter = new[l].voter => k = l]_vars

\* C30 witness: a vote for oneself was refused and the two votes recorded
\* before it are still there.
C30_Witness ==
    /\ cmdOut.cmd = "vote" /\ cmdOut.status = "error"
    /\ cmdOut.args[1] = cmdOut.args[2] /\ cmdOut.args[1] = Names[1]
    /\ ~StateFileMissing(game)
    /\ Len(game.votes) = 2

\* resolve succeeded on the state file as it is now.
Resolved == cmdOut.cmd = "resolve" /\ cmdOut.status = "ok"

\* The number of votes a player received.
Received(name) == Cardinality({k \in 1..Len(game.votes) : game.votes[k].target = name})

PlayerNames == {game.players[i].name : i \in 1..Len(game.players)}

\* The card a player holds now.
CardOf(name) == game.players[CHOOSE i \in 1..Len(game.players) :
                                game.players[i].name = name].currentRole

\* The players eliminated by the vote: those of result.eliminated before
\* the ones the hunter chain added, one for each entry of hunterKills.
EliminatedByVote ==
    {game.result.eliminated[k] :
        k \in 1..(Len(game.result.eliminated) - Len(game.result.hunterKills))}

\* C26: resolve fails while a vote is missing; otherwise the players it
\* eliminates by the vote are those who received the most votes, all of
\* them on a tie, and nobody when every player received exactly one vote.
C26_MostVotedAreEliminated ==
    /\ (cmdOut.cmd = "resolve" /\ cmdOut.status = "error")
            => Len(game.votes) < Len(game.players)
    /\ Resolved
            => /\ Len(game.votes) = Len(game.players)
               /\ game.result = cmdOut.out
               /\ EliminatedByVote =
                    IF \A p \in PlayerNames : Received(p) = 1 THEN {}
                    ELSE {p \in PlayerNames : \A q \in PlayerNames : Received(q) <= Received(p)}

\* C26 witness: six players received one vote each and nobody was
\* eliminated.
C26_Witness ==
    /\ Resolved
    /\ Len(game.players) = 6
    /\ \A p \in PlayerNames : Received(p) = 1
    /\ game.result.eliminated = <<>>

\* C27: resolve declares village the winner exactly when an eliminated
\* player, the victim of a hunter included, holds a werewolf card now, or
\* nobody is eliminated and no player holds a werewolf card now; it
\* declares wolf otherwise.
C27_WinnerByCurrentCards ==
    Resolved
        => LET eliminated == {game.result.eliminated[k] :
                                k \in 1..Len(game.result.eliminated)}
               village ==
                    \/ \E e \in eliminated : CardOf(e) = "werewolf"
                    \/ /\ eliminated = {}
                       /\ \A p \in PlayerNames : CardOf(p) # "werewolf"
           IN  game.result.winner = IF village THEN "village" ELSE "wolf"

\* C27 witness: the village won because the victim of the hunter, dealt
\* another role, holds a werewolf card, and no player eliminated by the
\* vote does.
C27_Witness ==
    /\ Resolved
    /\ game.result.winner = "village"
    /\ Len(game.result.hunterKills) = 1
    /\ CardOf(game.result.hunterKills[1].target) = "werewolf"
    /\ \E i \in 1..Len(game.players) :
          /\ game.players[i].name = game.result.hunterKills[1].target
          /\ game.players[i].originalRole # "werewolf"
    /\ \A e \in EliminatedByVote : CardOf(e) # "werewolf"

\* C28: when a player eliminated by the vote holds the hunter card now and
\* another player is not eliminated, exactly one more player is
\* eliminated: the one named by --hunter-target when that is another
\* player not eliminated, one of those players otherwise; never the
\* hunter, never a player already eliminated.  Otherwise the hunter kills
\* nobody.
C28_HunterTakesOneSurvivor ==
    Resolved
        => LET result == game.result
               byVote == SubSeq(result.eliminated, 1,
                                Len(result.eliminated) - Len(result.hunterKills))
               voted == {byVote[k] : k \in 1..Len(byVote)}
               hunters == {e \in voted : CardOf(e) = "hunter"}
               Others(h) == (PlayerNames \ voted) \ {h}
               hunterTarget == cmdOut.args[1]
           IN  IF \E h \in hunters : Others(h) # {}
               THEN /\ Len(result.hunterKills) = 1
                    /\ LET kill == result.hunterKills[1]
                       IN  /\ kill.hunter \in hunters
                           /\ kill.target \in Others(kill.hunter)
                           /\ hunterTarget \in Others(kill.hunter)
                                => kill.target = hunterTarget
                           /\ result.eliminated = Append(byVote, kill.target)
               ELSE /\ result.hunterKills = <<>>
                    /\ result.eliminated = byVote

\* C28 witness: the vote eliminated the hunter and another player,
\* --hunter-target named that other player, and the hunter took a third.
C28_Witness ==
    /\ Resolved
    /\ Len(game.result.hunterKills) = 1
    /\ cmdOut.args[1] \in EliminatedByVote
    /\ cmdOut.args[1] # game.result.hunterKills[1].hunter
    /\ game.result.hunterKills[1].target \notin EliminatedByVote \cup {cmdOut.args[1]}

\* C31: a step of resolve fails and leaves the state file, its phase,
\* result and votes included, as it was whenever fewer votes than players
\* are recorded; when every player has voted it stores the result it
\* prints and the phase end, and leaves the votes as they were.
C31_ResolveNeedsAllVotes ==
    [][cmdOut'.cmd = "resolve"
          => IF StateFileMissing(game)
             THEN cmdOut'.status = "error" /\ game' = game
             ELSE IF Len(game.votes) < Len(game.players)
             THEN /\ cmdOut'.status = "error"
                  /\ game' = game
             ELSE /\ cmdOut'.status = "ok"
                  /\ game'.phase = "end"
                  /\ game'.result = cmdOut'.out
                  /\ game'.result.winner \in {"village", "wolf"}
                  /\ game'.votes = game.votes]_vars

\* C31 witness: resolve was refused in the day with two of three votes
\* recorded, and no result is stored.
C31_Witness ==
    /\ cmdOut.cmd = "resolve" /\ cmdOut.status = "error"
    /\ game.phase = "day"
    /\ Len(game.votes) = 2 /\ Len(game.players) = 3
    /\ game.result = NoResult

\* The night of a new game up to the moment the robber wakes.
BeforeRobber(g, c) ==
    SeerStep(MasonStep(WerewolfStep([players |-> g.players, center |-> g.centerCards,
                                     actions |-> <<>>],
                                    c.wolfCenter)),
             c.seer)

\* C32: in every night of a new game with a robber, the robber's step
\* exchanges the currentRole of the robber and of one other player and
\* touches no other card; the newRole it records is the card the robber
\* holds right after, the target holds the card the robber held before, and
\* no originalRole changes.  In the stored night the recorded newRole is
\* the card the target was dealt.
C32_RobberExchangesWithTarget ==
    /\ game.phase = "night"
        => \A c \in NightChoices(game.players) :
              LET before == BeforeRobber(game, c)
                  after == RobberStep(before, c.robberTarget)
                  n == Len(game.players)
                  robbers == {i \in 1..n : game.players[i].originalRole = "robber"}
              IN  \A r \in robbers :
                    LET action == after.actions[Len(after.actions)]
                    IN  /\ Len(after.actions) = Len(before.actions) + 1
                        /\ action.role = "robber" /\ action.actor = before.players[r].name
                        /\ \E t \in (1..n) \ {r} :
                              /\ action.targets = <<before.players[t].name>>
                              /\ after.players[r].currentRole = before.players[t].currentRole
                              /\ after.players[t].currentRole = before.players[r].currentRole
                              /\ action.newRole = after.players[r].currentRole
                              /\ \A i \in (1..n) \ {r, t} : after.players[i] = before.players[i]
                        /\ \A i \in 1..n :
                              /\ after.players[i].originalRole = before.players[i].originalRole
                              /\ after.players[i].name = before.players[i].name
                        /\ after.center = before.center
    /\ game.phase = "day"
        => \A k \in 1..Len(game.nightActions) :
              game.nightActions[k].role = "robber"
                => \E r, t \in 1..Len(game.players) :
                      /\ r # t
                      /\ game.players[r].originalRole = "robber"
                      /\ game.nightActions[k].actor = game.players[r].name
                      /\ game.nightActions[k].targets = <<game.players[t].name>>
                      /\ game.nightActions[k].newRole = game.players[t].originalRole

\* C32 witness: after the night the robber holds the werewolf card it
\* recorded as newRole and the player it took it from holds the robber card.
C32_Witness ==
    /\ game.phase = "day"
    /\ \E k \in 1..Len(game.nightActions), r, t \in 1..Len(game.players) :
          /\ game.nightActions[k].role = "robber"
          /\ game.nightActions[k].actor = game.players[r].name
          /\ game.nightActions[k].targets = <<game.players[t].name>>
          /\ game.nightActions[k].newRole = "werewolf"
          /\ game.players[r].currentRole = "werewolf"
          /\ game.players[t].currentRole = "robber"
          /\ game.players[t].originalRole = "werewolf"

\* C33: in the stored night of every game init creates, the two targets
\* recorded by the troublemaker are two different players and neither is
\* the troublemaker.
C33_TroublemakerTargetsDiffer ==
    game.phase = "day"
        => \A k \in 1..Len(game.nightActions) :
              LET action == game.nightActions[k]
              IN  action.role = "troublemaker"
                    => /\ Len(action.targets) = 2
                       /\ action.targets[1] # action.targets[2]
                       /\ action.targets[1] # action.actor
                       /\ action.targets[2] # action.actor
                       /\ \A t \in 1..2 : action.targets[t] \in PlayerNames

\* The number of elements of seq equal to x.
CountIn(seq, x) == Cardinality({k \in 1..Len(seq) : seq[k] = x})

\* C34: a step of init with 3 to 6 players, as many names and, with
\* --mason, two villagers to replace, stores a game in phase night with one
\* card for each player, three center cards and two werewolves among these
\* N + 3 cards; with any other arguments it fails and the state file is as
\* it was, absent if it was absent.
C34_InitDealsOrFails ==
    [][\A n \in 2..7, mason \in BOOLEAN : \A playerNames \in NameLists(n) :
          (/\ cmdOut'.cmd = "init"
           /\ cmdOut'.status = "ok" => Len(game'.players) = Len(playerNames)
           /\ cmdOut'.status = "error" => InitRefused(n, mason, playerNames)
           /\ \E k \in 0..8 : cmdInit(n, mason, k, playerNames))
            => IF /\ n \in 3..6
                  /\ Len(playerNames) = n
                  /\ mason => CountIn(CONFIGS(n), "villager") >= 2
               THEN /\ cmdOut'.status = "ok"
                    /\ game'.phase = "night"
                    /\ Len(game'.players) = n
                    /\ \A i \in 1..n :
                          /\ game'.players[i].name = playerNames[i]
                          /\ game'.players[i].originalRole \in RoleNames
                          /\ game'.players[i].currentRole = game'.players[i].originalRole
                    /\ Len(game'.centerCards) = 3
                    /\ game'.originalCenter = game'.centerCards
                    /\ CountIn([i \in 1..n |-> game'.players[i].originalRole], "werewolf")
                         + CountIn(game'.centerCards, "werewolf") = 2
                    /\ CountIn([i \in 1..n |-> game'.players[i].originalRole], "mason")
                         + CountIn(game'.centerCards, "mason") = IF mason THEN 2 ELSE 0
                    /\ game'.nightActions = <<>> /\ game'.votes = <<>>
                    /\ game'.result = NoResult
               ELSE /\ cmdOut'.status = "error"
                    /\ game' = game]_vars

\* C34 witness: init was refused and there is still no state file.
C34_Witness ==
    /\ cmdOut.cmd = "init" /\ cmdOut.status = "error"
    /\ StateFileMissing(game)

\* The cards of a game as they lie now, and as they were dealt.
CardsNow(g) == [i \in 1..Len(g.players) |-> g.players[i].currentRole] \o g.centerCards

CardsDealt(g) == [i \in 1..Len(g.players) |-> g.players[i].originalRole] \o g.originalCenter

\* C38: the game init wrote and the game a step of night leaves both have
\* three center cards and, role by role, as many cards lying now as were
\* dealt, each player holding one; night changes no name, no originalRole
\* and not originalCenter.
C38_NightKeepsTheCards ==
    [][cmdOut'.cmd = "night"
          => /\ Len(game.players) = Len(game'.players)
             /\ \A i \in 1..Len(game.players) :
                    /\ game'.players[i].name = game.players[i].name
                    /\ game'.players[i].originalRole = game.players[i].originalRole
                    /\ game'.players[i].currentRole \in RoleNames
             /\ game'.originalCenter = game.originalCenter
             /\ Len(game'.centerCards) = 3
             /\ Len(game.centerCards) = 3
             /\ \A role \in RoleNames :
                    /\ CountIn(CardsNow(game'), role) = CountIn(CardsDealt(game'), role)
                    /\ CountIn(CardsNow(game), role) = CountIn(CardsDealt(game), role)]_vars

\* C38 witness: after the night a center card and the cards of four
\* players are not the ones dealt.
C38_Witness ==
    /\ game.phase = "day"
    /\ game.centerCards # game.originalCenter
    /\ Cardinality({i \in 1..Len(game.players) :
                        game.players[i].currentRole # game.players[i].originalRole}) >= 4

\* C39: the game-end section of the log announces the village team exactly
\* when resolve stored 'village' as the winner.
C39_LogAnnouncesStoredWinner ==
    (cmdOut.cmd = "log" /\ cmdOut.status = "ok")
        => (cmdOut.out.winTeam = Teams(cmdOut.args[2]).village
                <=> game.result.winner = "village")

\* A text '/c@b' or '/c@b ...' with c a registered command and b a word.
AddressedToBot(content) ==
    /\ Len(content) >= 4
    /\ content[1] = "/" /\ content[2] \in commands
    /\ content[3] = "@" /\ content[4] \in Words
    /\ Len(content) > 4 => content[5] = " "

\* The same text without '@b'.
WithoutBot(content) == <<"/", content[2]>> \o SubSeq(content, 5, Len(content))

\* C35: handleCommand on '/c@b args', c a registered command, reaches the
\* same handler with the same arguments and returns the same result as on
\* '/c args'.
C35_BotSuffixIsIgnored ==
    [][(commandResult' # commandResult /\ AddressedToBot(commandResult'.content))
        => LET plain == HandleCommand(WithoutBot(commandResult'.content), resetConversation)
           IN  /\ commandResult'.handler = commandResult'.content[2]
               /\ commandResult'.handler = plain.handler
               /\ commandResult'.args = plain.args
               /\ commandResult'.response = plain.response
               /\ commandResult'.handled = plain.handled
               /\ commandResult'.resetCalls = plain.resetCalls]_vars

\* A command addressed to a bot reached its handler with two arguments, and
\* another reset the conversation.
C35_Witness ==
    /\ commandResult # NoCall
    /\ commandResult.atIdx > 0
    /\ \/ commandResult.handler = "usage" /\ Len(commandResult.args) = 2
       \/ commandResult.handler = "reset" /\ commandResult.resetCalls = 1

\* The responses of /reset that confirm the reset.
Confirmations ==
    {"*Conversation reset.*", "*Conversation reset.* _Stopped the active agent_"}

\* C36 as stated: /reset with arguments returns the usage message and does
\* not call the reset-conversation handler; /reset without arguments calls
\* it once and returns the confirmation; handled is true in both cases.
C36_ResetUsageOrConfirmation ==
    (commandResult # NoCall /\ commandResult.handler = "reset")
        => /\ commandResult.handled
           /\ IF Len(commandResult.args) > 0
              THEN commandResult.response = "*Usage:* /reset"
                   /\ commandResult.resetCalls = 0
              ELSE commandResult.response \in Confirmations
                   /\ commandResult.resetCalls = 1

\* C36 amended: /reset with arguments returns the usage message and calls
\* no handler; /reset without arguments returns an error and calls nothing
\* when no reset-conversation handler is registered, and otherwise calls
\* the handler once and returns the confirmation if the handler resolves,
\* an error if it rejects; handled is true in every case.
C36_ResetUsageOrRegisteredHandler ==
    [][(commandResult' # commandResult /\ commandResult'.handler = "reset")
        => LET r == commandResult'
           IN  /\ r.handled
               /\ IF Len(r.args) > 0
                  THEN r.response = "*Usage:* /reset" /\ r.resetCalls = 0
                  ELSE IF resetConversation = "null"
                  THEN r.response = "*Error:* Reset handler not available"
                       /\ r.resetCalls = 0
                  ELSE /\ r.resetCalls = 1
                       /\ IF resetConversation = "rejects"
                          THEN r.response = "*Error:* Command failed"
                          ELSE r.response \in Confirmations]_vars

\* /reset with an argument was answered with the usage message while a
\* handler was registered.
C36_Witness ==
    /\ resetConversation = "resolves"
    /\ commandResult # NoCall
    /\ commandResult.handler = "reset"
    /\ commandResult.args = <<<<"now">>>>
    /\ commandResult.response = "*Usage:* /reset"
    /\ commandResult.resetCalls = 0

\* C37: between two initBotPool calls and with a non-empty pool, the first
\* message of a new key is given the index (keys assigned so far) modulo
\* the pool size, and every message of a key is sent through the bot the
\* map holds for it, one bot per key, however the calls interleave.
C37_StableRoundRobin ==
    [][/\ \A c \in PoolCallIds :
            (poolCalls[c].pc = "idle" /\ poolCalls'[c].pc = "rename")
                => LET call == poolCalls'[c]
                   IN  /\ Len(poolApis) > 0
                       /\ \A e \in senderBotMap : e.key # call.key
                       /\ call.idx = Cardinality({e.key : e \in senderBotMap}) % Len(poolApis)
                       /\ senderBotMap' = senderBotMap \cup {[key |-> call.key, idx |-> call.idx]}
       /\ \A p \in sentVia' \ sentVia :
            \E e \in senderBotMap' : e.key = p[1] /\ poolApis'[e.idx + 1] = p[2]
       /\ \A p \in sentVia', q \in sentVia' : p[1] = q[1] => p[2] = q[2]]_vars

\* While the first call of a key still waits for the rename, a second call
\* of the same key is sending through the key's bot, and another key has
\* sent through the other bot.
C37_Witness ==
    \E c1 \in PoolCallIds, c2 \in PoolCallIds :
        /\ poolCalls[c1].pc \in {"rename", "timeout"}
        /\ ~poolCalls[c1].stale
        /\ poolCalls[c2].pc = "send"
        /\ poolCalls[c1].idx < Len(poolApis)
        /\ <<poolCalls[c1].key, poolApis[poolCalls[c1].idx + 1]>> \in sentVia
        /\ \E p \in sentVia : p[2] # poolApis[poolCalls[c1].idx + 1]

\* A value that is not empty and has no white space, quote or newline at
\* either end or newline inside.
PlainValue(value) ==
    /\ value # <<>>
    /\ value[1] \notin WhiteSpace \cup {"\"", "'", "\n"}
    /\ value[Len(value)] \notin WhiteSpace \cup {"\"", "'", "\n"}
    /\ \A i \in 1..Len(value) : value[i] # "\n"

\* A key that is not empty, holds no '=' and no newline, does not start
\* with '#' and has no white space at either end.
PlainKey(key) ==
    /\ key # <<>>
    /\ key[1] \notin WhiteSpace \cup {"#"}
    /\ key[Len(key)] \notin WhiteSpace
    /\ \A i \in 1..Len(key) : key[i] \notin {"=", "\n"}

\* The comment lines and the lines of keys that are not updated, in order.
OtherLines(file, updates) ==
    SelectSeq(splitLines(ContentOf(file), 1, <<>>),
              LAMBDA line :
                  \/ trim(line) # <<>> /\ trim(line)[1] = "#"
                  \/ HoldsKey(line) /\ KeyOf(line) \notin UpdatedKeys(updates))

\* After updateEnvFile(updates), readEnvFile returns the update of every
\* updated key and what it returned before for every other key, and the
\* comment lines and the lines of other keys are as they were.
ReadsBackUpdates(before, after, updates) ==
    /\ \A k \in EnvKeys :
          ReadEnvFile(after, EnvKeys)[k]
              = IF k \in UpdatedKeys(updates) THEN UpdateOf(updates, k)
                ELSE ReadEnvFile(before, EnvKeys)[k]
    /\ OtherLines(after, updates) = OtherLines(before, updates)

\* C40 as stated: for any .env content and any updates whose values are
\* plain, readEnvFile after updateEnvFile returns the updates and the
\* former values of the other keys, and the other lines are kept in order.
C40_UpdateThenReadAnyKeys ==
    [][(envCall'.op = "update"
        /\ \A i \in 1..Len(envCall'.updates) : PlainValue(envCall'.updates[i].value))
        => ReadsBackUpdates(envFile, envFile', envCall'.updates)]_vars

\* C40 amended: the same, for updates whose keys are plain too.
C40_UpdateThenReadPlainKeys ==
    [][(envCall'.op = "update"
        /\ \A i \in 1..Len(envCall'.updates) :
              PlainValue(envCall'.updates[i].value) /\ PlainKey(envCall'.updates[i].key))
        => ReadsBackUpdates(envFile, envFile', envCall'.updates)]_vars

\* Two keys were updated together, one of them in place, in a file that
\* keeps a comment line.
C40_Witness ==
    /\ envCall.op = "update"
    /\ Len(envCall.updates) = 2
    /\ \A i \in 1..2 : PlainValue(envCall.updates[i].value)
    /\ LET lines == splitLines(envFile.content, 1, <<>>)
       IN  /\ lines[1] = <<"#", "K1", "=", "v1">>
           /\ lines[2] = <<"K2", "=">> \o UpdateOf(envCall.updates, <<"K2">>)
           /\ lines[3] = <<"K1", "=", "v1">>
    /\ ReadEnvFile(envFile, EnvKeys)[<<"K2">>] = UpdateOf(envCall.updates, <<"K2">>)

====
